---- MODULE Spec2Model ----
(***************************************************************************)
(* Attestation token lifecycle of flare_ai_defai:                          *)
(*   - Vtpm.get_token            (attestation/vtpm_attestation.py)         *)
(*   - VtpmValidation.validate_token (attestation/vtpm_validation.py)      *)
(* and the components around it:                                           *)
(*   - Prompt.format             (prompts/schemas.py)                      *)
(*   - FlareProvider             (blockchain/flare.py)                     *)
(*   - FlareVerifier, main loop  (blockchain_verifier.py, main.py)         *)
(* Strings are sequences of Unicode code points, byte strings sequences    *)
(* of integers 0..255.                                                     *)
(***************************************************************************)
EXTENDS Integers, Sequences, FiniteSets, TLC

VARIABLES
    \* ---- Vtpm (attestation client) ----
    simulate,        \* Vtpm.simulate, fixed at construction
    pc,              \* position of the running get_token call
    nonces,          \* argument of get_token
    audience,        \* argument of get_token
    token_type,      \* argument of get_token
    client_socket,   \* the Unix socket of the call: none/created/connected/closed
    sock_ops,        \* socket operations performed by the running call
    posts,           \* requests received by the attestation endpoint in this call
    res,             \* the HTTP response object of the call
    result,          \* what the call hands to its caller (value or exception)
    calls,           \* get_token calls completed on this client
    open_sockets,    \* sockets of completed calls that were never closed
    \* ---- VtpmValidation (token validator) ----
    validator,       \* the VtpmValidation object: issuer and endpoint paths
    vpc,             \* position of the running validate_token call
    token,           \* argument of validate_token
    now,             \* the clock during the call
    unverified_header, \* local of validate_token
    scheme,          \* the path validate_token dispatched to
    events,          \* fetches and checks performed by the running call, in order
    jwks,            \* local of _decode_and_validate_oidc
    rsa_key,         \* local of _decode_and_validate_oidc
    root_cert,       \* local of _decode_and_validate_pki (the fetched root)
    certs,           \* local of _decode_and_validate_pki (PKICertificates)
    vresult,         \* what validate_token hands to its caller
    parked,          \* frame of a second validate_token call that is not running
    \* ---- Prompt ----
    prompt,          \* the Prompt object format was called on
    kwargs,          \* keyword arguments of the format call
    formatted,       \* what format handed to its caller
    \* ---- FlareProvider ----
    address,         \* FlareProvider.address
    private_key,     \* FlareProvider.private_key
    tx_queue,        \* FlareProvider.tx_queue
    since_reset,     \* methods called since construction or the last reset
    resets,          \* reset calls made on this provider
    flare_result,    \* what the last FlareProvider call handed to its caller
    \* ---- FlareVerifier and the monitoring loop of main ----
    mpc,             \* position of the main loop
    high_risk_reports,    \* local of main, argument of verify_transactions
    verification_results, \* local of verify_transactions, then of main
    next_report,     \* index of the report or result the running loop is at
    alert_calls,     \* send_alert calls of this iteration of the main loop
    main_result      \* how this iteration of the main loop ended

tokenVars == <<simulate, pc, nonces, audience, token_type, client_socket,
               sock_ops, posts, res, result, calls, open_sockets>>

validationVars == <<validator, vpc, token, now, unverified_header, scheme,
                    events, jwks, rsa_key, root_cert, certs, vresult>>

promptVars == <<prompt, kwargs, formatted>>

flareVars == <<address, private_key, tx_queue, since_reset, resets, flare_result>>

verifierVars == <<mpc, high_risk_reports, verification_results, next_report,
                  alert_calls, main_result>>

\* What the actions of one component leave alone.
nonTokenVars == <<validationVars, parked, promptVars, flareVars, verifierVars>>
nonValidationVars == <<tokenVars, parked, promptVars, flareVars, verifierVars>>
nonPromptVars == <<tokenVars, validationVars, parked, flareVars, verifierVars>>
nonFlareVars == <<tokenVars, validationVars, parked, promptVars, verifierVars>>
nonVerifierVars == <<tokenVars, validationVars, parked, promptVars, flareVars>>

vars == <<tokenVars, validationVars, parked, promptVars, flareVars, verifierVars>>

(***************************************************************************)
(* Bounds of the model.                                                    *)
(***************************************************************************)
MaxNonceChars == 76
MaxTailChars == 1
MaxNonces == 2
MaxCalls == 2

(***************************************************************************)
(* UTF-8, as str.encode("utf-8") and bytes.decode() compute it.            *)
(***************************************************************************)
\* The bytes of one code point.
Utf8EncodeChar(cp) ==
    IF cp < 128 THEN <<cp>>
    ELSE IF cp < 2048 THEN <<192 + (cp \div 64), 128 + (cp % 64)>>
    ELSE IF cp < 65536 THEN
        <<224 + (cp \div 4096), 128 + ((cp \div 64) % 64), 128 + (cp % 64)>>
    ELSE <<240 + (cp \div 262144), 128 + ((cp \div 4096) % 64),
           128 + ((cp \div 64) % 64), 128 + (cp % 64)>>

RECURSIVE Utf8EncodeFrom(_, _)
Utf8EncodeFrom(s, i) ==
    IF i > Len(s) THEN <<>>
    ELSE Utf8EncodeChar(s[i]) \o Utf8EncodeFrom(s, i + 1)

Utf8Encode(s) == Utf8EncodeFrom(s, 1)

IsCont(b) == b >= 128 /\ b <= 191

\* Number of bytes of the well-formed sequence starting at b[i], 0 if none.
Utf8SeqLen(b, i) ==
    LET n == Len(b)
        b0 == b[i]
    IN  IF b0 < 128 THEN 1
        ELSE IF b0 >= 194 /\ b0 <= 223 THEN
            IF i + 1 <= n /\ IsCont(b[i + 1]) THEN 2 ELSE 0
        ELSE IF b0 >= 224 /\ b0 <= 239 THEN
            IF /\ i + 2 <= n
               /\ IsCont(b[i + 1]) /\ IsCont(b[i + 2])
               /\ (b0 = 224 => b[i + 1] >= 160)
               /\ (b0 = 237 => b[i + 1] <= 159)
            THEN 3 ELSE 0
        ELSE IF b0 >= 240 /\ b0 <= 244 THEN
            IF /\ i + 3 <= n
               /\ IsCont(b[i + 1]) /\ IsCont(b[i + 2]) /\ IsCont(b[i + 3])
               /\ (b0 = 240 => b[i + 1] >= 144)
               /\ (b0 = 244 => b[i + 1] <= 143)
            THEN 4 ELSE 0
        ELSE 0

Utf8DecodeChar(b, i, k) ==
    IF k = 1 THEN b[i]
    ELSE IF k = 2 THEN (b[i] - 192) * 64 + (b[i + 1] - 128)
    ELSE IF k = 3 THEN
        (b[i] - 224) * 4096 + (b[i + 1] - 128) * 64 + (b[i + 2] - 128)
    ELSE (b[i] - 240) * 262144 + (b[i + 1] - 128) * 4096
         + (b[i + 2] - 128) * 64 + (b[i + 3] - 128)

RECURSIVE Utf8Valid(_, _)
Utf8Valid(b, i) ==
    IF i > Len(b) THEN TRUE
    ELSE LET k == Utf8SeqLen(b, i)
         IN  k > 0 /\ Utf8Valid(b, i + k)

RECURSIVE Utf8DecodeFrom(_, _)
Utf8DecodeFrom(b, i) ==
    IF i > Len(b) THEN <<>>
    ELSE LET k == Utf8SeqLen(b, i)
         IN  <<Utf8DecodeChar(b, i, k)>> \o Utf8DecodeFrom(b, i + k)

\* bytes.decode(): defined on well-formed input only (else UnicodeDecodeError).
Utf8Decode(b) == Utf8DecodeFrom(b, 1)

(***************************************************************************)
(* Inputs.                                                                 *)
(***************************************************************************)
Rep(c, n) == [i \in 1..n |-> c]

\* 'a' (1 byte), e-acute (2 bytes), euro sign (3 bytes), an emoji (4 bytes).
Alphabet == {97, 233, 8364, 128512}

WideNonces ==
    {Rep(c, n) \o Rep(d, m) :
        c \in Alphabet, d \in Alphabet, n \in 0..MaxNonceChars, m \in 0..MaxTailChars}

SmallNonces ==
    {Rep(97, 9), Rep(97, 10), Rep(97, 74), Rep(97, 75),
     Rep(233, 5), Rep(233, 38), Rep(8364, 3) \o <<97>>}

RECURSIVE ListsUpTo(_, _)
ListsUpTo(S, n) ==
    IF n = 0 THEN {<<>>}
    ELSE LET shorter == ListsUpTo(S, n - 1)
         IN  shorter \cup {Append(l, x) : l \in shorter, x \in S}

NonceLists == ListsUpTo(SmallNonces, MaxNonces)
WideNonceLists == NonceLists \cup {<<x>> : x \in WideNonces}

Audiences == {"https://sts.google.com", "https://example.test"}
TokenTypes == {"OIDC", "PKI"}

(***************************************************************************)
(* Vtpm._check_nonce_length                                                *)
(***************************************************************************)
min_byte_len == 10
max_byte_len == 74

ByteLen(nonce) == Len(Utf8Encode(nonce))

\* Variant: the length counted in characters instead of encoded bytes.
NonceRaises_CharCount(nonce) ==
    Len(nonce) < min_byte_len \/ Len(nonce) > max_byte_len

\* The test of line 77 on one nonce.
NonceRaises(nonce) ==
    ByteLen(nonce) < min_byte_len \/ ByteLen(nonce) > max_byte_len

FirstRaising(ns) ==
    IF \E i \in 1..Len(ns) : NonceRaises(ns[i])
    THEN CHOOSE i \in 1..Len(ns) :
            NonceRaises(ns[i]) /\ \A j \in 1..(i - 1) : ~NonceRaises(ns[j])
    ELSE 0

\* kind: the exception class or "token"; line: the source line that raised.
NoResult == [kind |-> "none", line |-> 0, value |-> <<>>]

\* Outcome of _check_nonce_length: "ok", or the exception raised.  The message
\* of line 78 interpolates the nonce and min_byte_len; line 79 is a separate
\* expression statement and adds nothing to msg.
check_nonce_length(ns) ==
    LET i == FirstRaising(ns)
    IN  IF i = 0 THEN [kind |-> "ok", line |-> 0, value |-> <<>>]
        ELSE [kind |-> "VtpmAttestationError", line |-> 80,
              value |-> [nonce |-> ns[i], bounds |-> <<min_byte_len>>]]

(***************************************************************************)
(* get_simulated_token / SIM_TOKEN                                         *)
(***************************************************************************)
\* First line of simulated_token.txt as readline() returns it: "eyJ.sim\n".
simulated_token_txt == <<101, 121, 74, 46, 115, 105, 109, 10>>

IsSpace(c) == c \in {9, 10, 11, 12, 13, 32}

RECURSIVE LStrip(_)
LStrip(s) == IF s # <<>> /\ IsSpace(Head(s)) THEN LStrip(Tail(s)) ELSE s

RECURSIVE RStrip(_)
RStrip(s) ==
    IF s # <<>> /\ IsSpace(s[Len(s)]) THEN RStrip(SubSeq(s, 1, Len(s) - 1)) ELSE s

\* f.readline().strip()
get_simulated_token == RStrip(LStrip(simulated_token_txt))

\* Module constant, evaluated once at import.
SIM_TOKEN == get_simulated_token

(***************************************************************************)
(* The local attestation endpoint.                                         *)
(***************************************************************************)
success_status == 200

Statuses == {200, 400, 500}
Reasons == {"OK", "Bad Request"}

\* Response bodies: "eyJ", "e<e-acute>" (well-formed two-byte sequence), the
\* empty body, a lone 0xFF and a truncated two-byte sequence.
Bodies == {<<101, 121, 74>>, <<101, 195, 169>>, <<>>, <<255>>, <<101, 195>>}

NoResponse == [status |-> 0, reason |-> "", body |-> <<>>]

(***************************************************************************)
(* Vtpm.__init__ and Vtpm.get_token                                        *)
(***************************************************************************)
\* Vtpm.__init__ (lines 45-58); no call is running.
InitVtpm ==
    /\ simulate \in BOOLEAN
    /\ pc = "idle"
    /\ nonces = <<>>
    /\ audience = "https://sts.google.com"
    /\ token_type = "OIDC"
    /\ client_socket = "none"
    /\ sock_ops = 0
    /\ posts = <<>>
    /\ res = NoResponse
    /\ result = NoResult
    /\ calls = 0
    /\ open_sockets = 0

\* The caller invokes get_token(nonces, audience, token_type).
GetTokenCall ==
    /\ pc = "idle"
    /\ calls < MaxCalls
    /\ \E ns \in NonceLists, a \in Audiences, t \in TokenTypes :
        /\ nonces' = ns
        /\ audience' = a
        /\ token_type' = t
    /\ pc' = "check_nonce"
    /\ client_socket' = "none"
    /\ sock_ops' = 0
    /\ posts' = <<>>
    /\ res' = NoResponse
    /\ result' = NoResult
    /\ UNCHANGED <<simulate, calls, open_sockets>>
    /\ UNCHANGED nonTokenVars

\* Variant: the nonce check is skipped and the call goes on.
CheckNonceLength_Skipped ==
    /\ pc = "check_nonce"
    /\ pc' = "mode"
    /\ UNCHANGED <<simulate, nonces, audience, token_type, client_socket,
                   sock_ops, posts, res, result, calls, open_sockets>>
    /\ UNCHANGED nonTokenVars

\* line 115: self._check_nonce_length(nonces); its exception propagates.
CheckNonceLength ==
    /\ pc = "check_nonce"
    /\ LET r == check_nonce_length(nonces)
       IN  IF r.kind = "ok"
           THEN pc' = "mode" /\ result' = result
           ELSE pc' = "done" /\ result' = r
    /\ UNCHANGED <<simulate, nonces, audience, token_type, client_socket,
                   sock_ops, posts, res, calls, open_sockets>>
    /\ UNCHANGED nonTokenVars

\* Variant: the simulated token depends on the requested token type.
SimReturn_PerTokenType ==
    /\ pc = "mode"
    /\ simulate
    /\ result' = [kind |-> "token", line |-> 118,
                  value |-> IF token_type = "PKI" THEN SIM_TOKEN \o <<80>>
                            ELSE SIM_TOKEN]
    /\ pc' = "done"
    /\ UNCHANGED <<simulate, nonces, audience, token_type, client_socket,
                   sock_ops, posts, res, calls, open_sockets>>
    /\ UNCHANGED nonTokenVars

\* lines 116-118: simulation mode returns SIM_TOKEN.
SimReturn ==
    /\ pc = "mode"
    /\ simulate
    /\ result' = [kind |-> "token", line |-> 118, value |-> SIM_TOKEN]
    /\ pc' = "done"
    /\ UNCHANGED <<simulate, nonces, audience, token_type, client_socket,
                   sock_ops, posts, res, calls, open_sockets>>
    /\ UNCHANGED nonTokenVars

\* line 121: socket.socket(AF_UNIX, SOCK_STREAM)
SocketCreate ==
    /\ pc = "mode"
    /\ ~simulate
    /\ client_socket' = "created"
    /\ sock_ops' = sock_ops + 1
    /\ pc' = "connect"
    /\ UNCHANGED <<simulate, nonces, audience, token_type, posts, res, result,
                   calls, open_sockets>>
    /\ UNCHANGED nonTokenVars

\* line 122: client_socket.connect(path); OSError when the endpoint is absent.
SocketConnect ==
    /\ pc = "connect"
    /\ sock_ops' = sock_ops + 1
    /\ \/ /\ client_socket' = "connected"
          /\ pc' = "request"
          /\ result' = result
       \/ /\ client_socket' = client_socket
          /\ pc' = "done"
          /\ result' = [kind |-> "OSError", line |-> 122, value |-> <<>>]
    /\ UNCHANGED <<simulate, nonces, audience, token_type, posts, res, calls,
                   open_sockets>>
    /\ UNCHANGED nonTokenVars

\* json.dumps of line 130: the three fields of the request body.
RequestBody(a, t, ns) == [audience |-> a, token_type |-> t, nonces |-> ns]

\* lines 125-133: conn.request("POST", self.url, body, headers)
SendRequest ==
    /\ pc = "request"
    /\ sock_ops' = sock_ops + 1
    /\ \/ /\ posts' = Append(posts, [method |-> "POST",
                      body |-> RequestBody(audience, token_type, nonces)])
          /\ pc' = "getresponse"
          /\ result' = result
       \/ /\ posts' = posts
          /\ pc' = "done"
          /\ result' = [kind |-> "OSError", line |-> 133, value |-> <<>>]
    /\ UNCHANGED <<simulate, nonces, audience, token_type, client_socket, res,
                   calls, open_sockets>>
    /\ UNCHANGED nonTokenVars

\* line 136: conn.getresponse().  A transport error propagates; http.client
\* closes the connection itself on ConnectionError, not on a timeout.
GetResponse ==
    /\ pc = "getresponse"
    /\ sock_ops' = sock_ops + 1
    /\ \/ /\ \E st \in Statuses, rs \in Reasons, b \in Bodies :
                res' = [status |-> st, reason |-> rs, body |-> b]
          /\ pc' = "status"
          /\ result' = result
          /\ client_socket' = client_socket
       \/ /\ res' = res
          /\ pc' = "done"
          /\ result' = [kind |-> "OSError", line |-> 136, value |-> <<>>]
          /\ client_socket' \in {"connected", "closed"}
    /\ UNCHANGED <<simulate, nonces, audience, token_type, posts, calls,
                   open_sockets>>
    /\ UNCHANGED nonTokenVars

\* lines 137-140: a status other than 200 raises VtpmAttestationError.
CheckStatus ==
    /\ pc = "status"
    /\ IF res.status # success_status
       THEN /\ result' = [kind |-> "VtpmAttestationError", line |-> 140,
                          value |-> [status |-> res.status, reason |-> res.reason]]
            /\ pc' = "done"
       ELSE /\ result' = result
            /\ pc' = "read"
    /\ UNCHANGED <<simulate, nonces, audience, token_type, client_socket,
                   sock_ops, posts, res, calls, open_sockets>>
    /\ UNCHANGED nonTokenVars

\* line 141: token = res.read().decode()
ReadDecode ==
    /\ pc = "read"
    /\ sock_ops' = sock_ops + 1
    /\ IF Utf8Valid(res.body, 1)
       THEN /\ result' = [kind |-> "token", line |-> 146,
                          value |-> Utf8Decode(res.body)]
            /\ pc' = "close"
       ELSE /\ result' = [kind |-> "UnicodeDecodeError", line |-> 141, value |-> <<>>]
            /\ pc' = "done"
    /\ UNCHANGED <<simulate, nonces, audience, token_type, client_socket, posts,
                   res, calls, open_sockets>>
    /\ UNCHANGED nonTokenVars

\* lines 145-146: conn.close(); return token
CloseAndReturn ==
    /\ pc = "close"
    /\ client_socket' = "closed"
    /\ sock_ops' = sock_ops + 1
    /\ pc' = "done"
    /\ UNCHANGED <<simulate, nonces, audience, token_type, posts, res, result,
                   calls, open_sockets>>
    /\ UNCHANGED nonTokenVars

\* Control is back at the caller, who has the result; the call's frame is
\* gone, a socket it left open stays open.
GetTokenDone ==
    /\ pc = "done"
    /\ pc' = "idle"
    /\ calls' = calls + 1
    /\ open_sockets' =
        IF client_socket \in {"created", "connected"}
        THEN open_sockets + 1 ELSE open_sockets
    /\ nonces' = <<>>
    /\ audience' = "https://sts.google.com"
    /\ token_type' = "OIDC"
    /\ client_socket' = "none"
    /\ sock_ops' = 0
    /\ posts' = <<>>
    /\ res' = NoResponse
    /\ result' = NoResult
    /\ UNCHANGED simulate
    /\ UNCHANGED nonTokenVars

(***************************************************************************)
(* vtpm_validation.py: constants, tokens, certificates, endpoints.         *)
(***************************************************************************)
ALGO == "RS256"
CERT_HASH_ALGO == "sha256"
CERT_COUNT == 3

MaxTime == 4
MaxKeys == 2

\* The clock values a call may run at.
Times == 0..MaxTime

\* An X.509 certificate as carried in x5c or served by the issuer.
\*   der_ok: the entry base64-decodes and parses;  hash: signature hash
\*   algorithm name ("none": signature_hash_algorithm is None);  tbs: the
\*   to-be-signed content;  der: the whole encoding;  key: the public key;
\*   signed_by: the key that signed it.
Cert(ok, h, kt, nb, na, tbs, der, k, sb) ==
    [der_ok |-> ok, hash |-> h, keytype |-> kt, not_before |-> nb,
     not_after |-> na, tbs |-> tbs, der |-> der, key |-> k, signed_by |-> sb]

NoCert == Cert(FALSE, "none", "none", 0, 0, "none", "none", "none", "none")

\* The platform root, valid from 1 to 3; its encoding hashes to the pinned
\* fingerprint.
PinnedRootCert == Cert(TRUE, "sha256", "RSA", 1, 3, "root", "root", "RK", "RK")
\* Another root: own content, own key.
RogueRootCert == Cert(TRUE, "sha256", "RSA", 0, 100, "rogue", "rogue", "XK", "XK")
\* Undecodable x5c entry.
GarbageCert == Cert(FALSE, "none", "none", 0, 0, "garbage", "garbage", "none", "none")

\* Validity windows below the root: one containing every clock value, one
\* containing only 2.
WideIntermediateCert == Cert(TRUE, "sha256", "RSA", 0, 100, "int", "int", "IK", "RK")
PointIntermediateCert == Cert(TRUE, "sha256", "RSA", 2, 2, "int", "int", "IK", "RK")
\* Intermediate signed by another key than the root's.
StrayIntermediateCert == Cert(TRUE, "sha256", "RSA", 0, 100, "int2", "int2", "IK", "XK")

WideLeafCert == Cert(TRUE, "sha256", "RSA", 0, 100, "leaf", "leaf", "LK", "IK")
PointLeafCert == Cert(TRUE, "sha256", "RSA", 2, 2, "leaf", "leaf", "LK", "IK")
Sha1LeafCert == Cert(TRUE, "sha1", "RSA", 0, 100, "leaf3", "leaf3", "LK", "IK")
NoHashLeafCert == Cert(TRUE, "none", "RSA", 0, 100, "leaf4", "leaf4", "LK", "IK")
EcLeafCert == Cert(TRUE, "sha256", "EC", 0, 100, "leaf5", "leaf5", "LK", "IK")
\* Leaf signed by another key than the intermediate's.
StrayLeafCert == Cert(TRUE, "sha256", "RSA", 0, 100, "leaf6", "leaf6", "LK", "XK")

LeafCerts == {WideLeafCert, PointLeafCert, Sha1LeafCert, NoHashLeafCert,
              EcLeafCert, StrayLeafCert, GarbageCert}
IntermediateCerts == {WideIntermediateCert, PointIntermediateCert,
                      StrayIntermediateCert, GarbageCert}
RootCerts == {PinnedRootCert, RogueRootCert, GarbageCert}

\* x5c header values: every chain of three, and chains of 0, 1, 2 and 4 entries.
X5cChains ==
    {<<l, i, r>> : l \in LeafCerts, i \in IntermediateCerts, r \in RootCerts}
    \cup {<<>>, <<WideLeafCert>>, <<WideLeafCert, PinnedRootCert>>,
          <<GarbageCert, PinnedRootCert>>,
          <<WideLeafCert, WideIntermediateCert, WideIntermediateCert, PinnedRootCert>>}

\* Token payloads: with and without aud, without exp and with exp = 2.
Payload(a, e) == [sub |-> "workload", aud |-> a, exp |-> e]
Payloads == {Payload(a, e) : a \in {"absent", "https://sts.google.com"}, e \in {0, 2}}

Header(alg, has, x5c, kid) == [alg |-> alg, has_x5c |-> has, x5c |-> x5c, kid |-> kid]

Token(ok, h, p, sb) == [wellformed |-> ok, header |-> h, payload |-> p, signed_by |-> sb]

\* Tokens with an x5c header field.
PKITokens ==
    {Token(TRUE, Header(ALGO, TRUE, c, "absent"), p, k) :
        c \in X5cChains \ {<<>>}, p \in Payloads, k \in {"LK", "XK"}}

\* Tokens without certificates: no x5c field, or an empty one.
OIDCTokens ==
    {Token(TRUE, Header(ALGO, has, <<>>, kid), p, k) :
        has \in BOOLEAN, kid \in {"absent", "k1", "k3"}, p \in Payloads,
        k \in {"K1", "K2", "XK"}}

\* Tokens of another algorithm, or of none, with and without x5c and kid.
OtherAlgTokens ==
    {Token(TRUE, Header(alg, c # <<>>, c, kid), p, "XK") :
        alg \in {"HS256", "none", "absent"},
        c \in {<<>>, <<WideLeafCert, WideIntermediateCert, PinnedRootCert>>},
        kid \in {"absent", "k1"}, p \in Payloads}

\* A string that is not a JWT.
MalformedToken ==
    Token(FALSE, Header("absent", FALSE, <<>>, "absent"), Payload("absent", 0), "XK")

Tokens == PKITokens \cup OIDCTokens \cup OtherAlgTokens \cup {MalformedToken}

\* Entries of a key set: kid, whether n and e are present and decodable, and
\* the RSA key they encode.
Jwk(kid, ok, k) == [kid |-> kid, n_e_ok |-> ok, key |-> k]
JwkEntries == {Jwk("k1", TRUE, "K1"), Jwk("k1", TRUE, "K2"),
               Jwk("k2", TRUE, "K2"), Jwk("k1", FALSE, "none")}
KeySets == ListsUpTo(JwkEntries, MaxKeys)

\* A response of a well-known endpoint.
\*   json_ok: the body parses as JSON;  has_field: it holds the field read
\*   (jwks_uri, keys);  keys: the key set;  pem_ok: the body is a PEM
\*   certificate;  cert: that certificate.
Response(st, j, f, ks, pem, c) ==
    [status_code |-> st, json_ok |-> j, has_field |-> f, keys |-> ks,
     pem_ok |-> pem, cert |-> c]

ConfigResponses ==
    {Response(200, TRUE, TRUE, <<>>, FALSE, NoCert),
     Response(200, TRUE, FALSE, <<>>, FALSE, NoCert),
     Response(200, FALSE, FALSE, <<>>, FALSE, NoCert),
     Response(404, FALSE, FALSE, <<>>, FALSE, NoCert),
     Response(503, TRUE, TRUE, <<>>, FALSE, NoCert)}

JwksResponses ==
    {Response(200, TRUE, TRUE, ks, FALSE, NoCert) : ks \in KeySets}
    \cup {Response(200, TRUE, FALSE, <<>>, FALSE, NoCert),
          Response(200, FALSE, FALSE, <<>>, FALSE, NoCert),
          Response(404, FALSE, FALSE, <<>>, FALSE, NoCert),
          Response(503, TRUE, TRUE, <<Jwk("k1", TRUE, "K1")>>, FALSE, NoCert)}

RootResponses ==
    {Response(200, FALSE, FALSE, <<>>, TRUE, c) :
        c \in {PinnedRootCert, RogueRootCert}}
    \cup {Response(200, FALSE, FALSE, <<>>, FALSE, NoCert),
          Response(404, FALSE, FALSE, <<>>, FALSE, NoCert),
          Response(503, FALSE, FALSE, <<>>, TRUE, PinnedRootCert)}

(***************************************************************************)
(* Results and the history of a call.                                      *)
(***************************************************************************)
\* kind: "claims" or the exception class the caller receives;  line: the
\* source line that returned or raised it;  cause, cause_line: the exception
\* it was raised from (raise ... from e);  detail: what the message names.
VResult(k, l, c, cl, d, v) ==
    [kind |-> k, line |-> l, cause |-> c, cause_line |-> cl, detail |-> d,
     value |-> v]

NoVResult == VResult("none", 0, "none", 0, "", <<>>)
Ok == VResult("ok", 0, "none", 0, "", <<>>)
Raise(k, l, d) == VResult(k, l, "none", 0, d, <<>>)

\* An entry of the history: arg is the status code of a fetch (0: no response)
\* or the index of the entry handled.
Ev(name, arg) == [ev |-> name, arg |-> arg]

(***************************************************************************)
(* Library calls used by the validator.                                    *)
(***************************************************************************)
\* The exception classes jwt.InvalidTokenError covers.
InvalidTokenErrors ==
    {"InvalidTokenError", "DecodeError", "InvalidSignatureError",
     "ExpiredSignatureError", "InvalidAudienceError"}

\* jwt.decode(token, key, algorithms=[ALGO], options): the signature first,
\* then exp against the clock, then aud (no audience is ever passed, so a
\* token with an aud claim fails when verify_aud is on).
jwt_decode(tok, key, verify_aud, t) ==
    IF tok.signed_by # key THEN Raise("InvalidSignatureError", 0, "")
    ELSE IF tok.payload.exp # 0 /\ tok.payload.exp <= t
        THEN Raise("ExpiredSignatureError", 0, "")
    ELSE IF verify_aud /\ tok.payload.aud # "absent"
        THEN Raise("InvalidAudienceError", 0, "")
    ELSE VResult("claims", 0, "none", 0, "", tok.payload)

\* hashlib / x509 fingerprint: SHA-1 of a certificate's encoding.  The
\* platform root hashes to the pinned digest, anything else to another one.
sha1_digest(der) ==
    IF der = "root"
    THEN <<185, 81, 32, 116, 44, 36, 227, 170, 52, 4,
           46, 28, 59, 163, 170, 210, 139, 33, 35, 33>>
    ELSE [i \in 1..20 |-> IF der = "rogue" THEN 17 ELSE 34]

HexDigits ==
    <<"0", "1", "2", "3", "4", "5", "6", "7", "8", "9", "a", "b", "c", "d", "e", "f">>

\* format(b, "02x")
format_02x(b) == <<HexDigits[(b \div 16) + 1], HexDigits[(b % 16) + 1]>>

RECURSIVE JoinColon(_)
JoinColon(parts) ==
    IF parts = <<>> THEN <<>>
    ELSE IF Len(parts) = 1 THEN parts[1]
    ELSE parts[1] \o <<":">> \o JoinColon(Tail(parts))

\* Variant: the hex digits are left in lower case.
UpperChar_Identity(c) == c

UpperChar(c) ==
    CASE c = "a" -> "A" [] c = "b" -> "B" [] c = "c" -> "C"
      [] c = "d" -> "D" [] c = "e" -> "E" [] c = "f" -> "F" [] OTHER -> c

\* lines 241-242: ":".join(format(b, "02x") for b in fingerprint).upper()
calculated_fingerprint(cert) ==
    LET digest == sha1_digest(cert.der)
        joined == JoinColon([i \in 1..Len(digest) |-> format_02x(digest[i])])
    IN  [i \in 1..Len(joined) |-> UpperChar(joined[i])]

\* lines 81-83, one character per element.
CERT_FINGERPRINT ==
    <<"B", "9", ":", "5", "1", ":", "2", "0", ":", "7", "4", ":", "2", "C", ":",
      "2", "4", ":", "E", "3", ":", "A", "A", ":", "3", "4", ":", "0", "4", ":",
      "2", "E", ":", "1", "C", ":", "3", "B", ":", "A", "3", ":", "A", "A", ":",
      "D", "2", ":", "8", "B", ":", "2", "1", ":", "2", "3", ":", "2", "1">>

(***************************************************************************)
(* VtpmValidation.__init__ and validate_token                              *)
(***************************************************************************)
InitVtpmValidation ==
    /\ validator = [expected_issuer |-> "https://confidentialcomputing.googleapis.com",
                    oidc_endpoint |-> "/.well-known/openid-configuration",
                    pki_endpoint |-> "/.well-known/confidential_space_root.crt"]
    /\ vpc = "idle"
    /\ token = MalformedToken
    /\ now = 1
    /\ unverified_header = MalformedToken.header
    /\ scheme = "none"
    /\ events = <<>>
    /\ jwks = Response(0, FALSE, FALSE, <<>>, FALSE, NoCert)
    /\ rsa_key = "none"
    /\ root_cert = NoCert
    /\ certs = <<>>
    /\ vresult = NoVResult

\* The caller invokes validate_token(token).
ValidateCall ==
    /\ vpc = "idle"
    /\ token' \in Tokens
    /\ now' \in Times
    /\ vpc' = "header"
    /\ unverified_header' = MalformedToken.header
    /\ scheme' = "none"
    /\ events' = <<>>
    /\ jwks' = Response(0, FALSE, FALSE, <<>>, FALSE, NoCert)
    /\ rsa_key' = "none"
    /\ root_cert' = NoCert
    /\ certs' = <<>>
    /\ vresult' = NoVResult
    /\ UNCHANGED validator
    /\ UNCHANGED nonValidationVars

\* line 140: jwt.get_unverified_header(token); a string that is no JWT raises
\* jwt.DecodeError.
GetUnverifiedHeader ==
    /\ vpc = "header"
    /\ events' = Append(events, Ev("get_unverified_header", 0))
    /\ IF token.wellformed
       THEN /\ unverified_header' = token.header
            /\ vpc' = "alg"
            /\ vresult' = vresult
       ELSE /\ unverified_header' = unverified_header
            /\ vpc' = "done"
            /\ vresult' = Raise("DecodeError", 140, "")
    /\ UNCHANGED <<validator, token, now, scheme, jwks, rsa_key, root_cert, certs>>
    /\ UNCHANGED nonValidationVars

\* Variant: the algorithm is only checked on tokens without certificates.
AlgorithmRejected_OidcOnly(header) ==
    header.alg # ALGO /\ header.x5c = <<>>

\* line 143: unverified_header.get("alg") != ALGO
AlgorithmRejected(header) == header.alg # ALGO

\* lines 143-146; the message of line 144 names the algorithm found (line 145
\* is a separate expression statement).
CheckAlgorithm ==
    /\ vpc = "alg"
    /\ events' = Append(events, Ev("check_alg", 0))
    /\ IF AlgorithmRejected(unverified_header)
       THEN /\ vpc' = "done"
            /\ vresult' = Raise("VtpmValidationError", 146, unverified_header.alg)
       ELSE /\ vpc' = "dispatch"
            /\ vresult' = vresult
    /\ UNCHANGED <<validator, token, now, unverified_header, scheme, jwks,
                   rsa_key, root_cert, certs>>
    /\ UNCHANGED nonValidationVars

\* Variant: the scheme is taken from the (unverified) payload's audience.
SelectsPki_FromPayload(tok, header) == tok.payload.aud # "absent"

\* line 148: unverified_header.get("x5c", None) is truthy: the field is there
\* and holds at least one entry.
SelectsPki(tok, header) == header.has_x5c /\ header.x5c # <<>>

\* lines 148-154
Dispatch ==
    /\ vpc = "dispatch"
    /\ IF SelectsPki(token, unverified_header)
       THEN scheme' = "PKI" /\ vpc' = "pki_fetch"
       ELSE scheme' = "OIDC" /\ vpc' = "oidc_config"
    /\ events' = Append(events, Ev("dispatch", 0))
    /\ UNCHANGED <<validator, token, now, unverified_header, jwks, rsa_key,
                   root_cert, certs, vresult>>
    /\ UNCHANGED nonValidationVars

\* _get_well_known_file, lines 295-300, on a response received.
get_well_known_file(r) ==
    IF r.status_code = 200 THEN Ok ELSE Raise("HTTPError", 300, "")

\* _fetch_jwks, lines 319-324, on a response received.
fetch_jwks(r) ==
    IF r.status_code # 200 THEN Raise("HTTPError", 324, "")
    ELSE IF ~r.json_ok THEN Raise("JSONDecodeError", 322, "")
    ELSE Ok

\* lines 176-177: fetch the issuer metadata, parse it, read jwks_uri.
oidc_config(r) ==
    IF get_well_known_file(r).kind # "ok" THEN get_well_known_file(r)
    ELSE IF ~r.json_ok THEN Raise("JSONDecodeError", 176, "")
    ELSE IF ~r.has_field THEN Raise("KeyError", 177, "jwks_uri")
    ELSE Ok

\* Variant: after a failed fetch of the issuer metadata the request is made
\* once more.
FetchConfig_RetryOnce ==
    /\ vpc = "oidc_config"
    /\ \/ \E r \in ConfigResponses :
            /\ events' = Append(events, Ev("fetch_oidc_config", r.status_code))
            /\ IF oidc_config(r).kind = "ok"
               THEN vpc' = "oidc_jwks" /\ vresult' = vresult
               ELSE IF \A i \in 1..Len(events) : events[i].ev # "fetch_oidc_config"
               THEN vpc' = "oidc_config" /\ vresult' = vresult
               ELSE vpc' = "done" /\ vresult' = oidc_config(r)
       \/ /\ events' = Append(events, Ev("fetch_oidc_config", 0))
          /\ vpc' = "done"
          /\ vresult' = Raise("ConnectionError", 295, "")
    /\ UNCHANGED <<validator, token, now, unverified_header, scheme, jwks,
                   rsa_key, root_cert, certs>>
    /\ UNCHANGED nonValidationVars

\* lines 176-177.  requests.get may fail in transport (timeout, refused).
FetchConfig ==
    /\ vpc = "oidc_config"
    /\ \/ \E r \in ConfigResponses :
            /\ events' = Append(events, Ev("fetch_oidc_config", r.status_code))
            /\ IF oidc_config(r).kind = "ok"
               THEN vpc' = "oidc_jwks" /\ vresult' = vresult
               ELSE vpc' = "done" /\ vresult' = oidc_config(r)
       \/ /\ events' = Append(events, Ev("fetch_oidc_config", 0))
          /\ vpc' = "done"
          /\ vresult' = Raise("ConnectionError", 295, "")
    /\ UNCHANGED <<validator, token, now, unverified_header, scheme, jwks,
                   rsa_key, root_cert, certs>>
    /\ UNCHANGED nonValidationVars

\* line 179
FetchJwks ==
    /\ vpc = "oidc_jwks"
    /\ \/ \E r \in JwksResponses :
            /\ events' = Append(events, Ev("fetch_jwks", r.status_code))
            /\ IF fetch_jwks(r).kind = "ok"
               THEN vpc' = "oidc_scan" /\ vresult' = vresult /\ jwks' = r
               ELSE vpc' = "done" /\ vresult' = fetch_jwks(r) /\ jwks' = jwks
       \/ /\ events' = Append(events, Ev("fetch_jwks", 0))
          /\ vpc' = "done"
          /\ vresult' = Raise("ConnectionError", 319, "")
          /\ jwks' = jwks
    /\ UNCHANGED <<validator, token, now, unverified_header, scheme, rsa_key,
                   root_cert, certs>>
    /\ UNCHANGED nonValidationVars

\* _jwk_to_rsa_key, lines 341-343: an entry without a decodable n or e raises.
jwk_to_rsa_key(jwk) ==
    IF jwk.n_e_ok THEN VResult("ok", 0, "none", 0, "", jwk.key)
    ELSE Raise("KeyError", 341, "n")

\* Variant: the last entry with the header's kid is taken, after all entries
\* have been examined.
ScanKeys_LastMatch(keys, header, i) ==
    IF i > Len(keys) THEN [out |-> Ok, key |-> "none", evs |-> <<>>]
    ELSE IF header.kid = "absent"
        THEN [out |-> Raise("KeyError", 184, "kid"), key |-> "none",
              evs |-> <<Ev("examine_key", i)>>]
    ELSE LET all == [j \in 1..(Len(keys) - i + 1) |-> Ev("examine_key", i + j - 1)]
             matches == {j \in i..Len(keys) : keys[j].kid = header.kid}
         IN  IF matches = {}
             THEN [out |-> Ok, key |-> "none", evs |-> all]
             ELSE LET m == CHOOSE j \in matches : \A l \in matches : l <= j
                      k == jwk_to_rsa_key(keys[m])
                  IN  [out |-> IF k.kind = "ok" THEN Ok ELSE k,
                       key |-> IF k.kind = "ok" THEN k.value ELSE "none",
                       evs |-> Append(all, Ev("jwk_to_rsa_key", m))]

\* Variant: the first entry of the key set is taken whatever its kid.
ScanKeys_FirstKey(keys, header, i) ==
    IF i > Len(keys) THEN [out |-> Ok, key |-> "none", evs |-> <<>>]
    ELSE LET k == jwk_to_rsa_key(keys[i])
         IN  [out |-> IF k.kind = "ok" THEN Ok ELSE k,
              key |-> IF k.kind = "ok" THEN k.value ELSE "none",
              evs |-> <<Ev("examine_key", i), Ev("jwk_to_rsa_key", i)>>]

\* The loop of lines 183-187 from entry i on: the outcome, the key found and
\* the entries examined and converted.
RECURSIVE ScanKeys(_, _, _)
ScanKeys(keys, header, i) ==
    IF i > Len(keys) THEN [out |-> Ok, key |-> "none", evs |-> <<>>]
    ELSE IF header.kid = "absent"
        THEN [out |-> Raise("KeyError", 184, "kid"), key |-> "none",
              evs |-> <<Ev("examine_key", i)>>]
    ELSE IF keys[i].kid = header.kid
        THEN LET k == jwk_to_rsa_key(keys[i])
             IN  [out |-> IF k.kind = "ok" THEN Ok ELSE k,
                  key |-> IF k.kind = "ok" THEN k.value ELSE "none",
                  evs |-> <<Ev("examine_key", i), Ev("jwk_to_rsa_key", i)>>]
    ELSE LET rest == ScanKeys(keys, header, i + 1)
         IN  [rest EXCEPT !.evs = <<Ev("examine_key", i)>> \o rest.evs]

\* lines 180-191
FindKey ==
    /\ vpc = "oidc_scan"
    /\ IF ~jwks.has_field
       THEN /\ vpc' = "done"
            /\ vresult' = Raise("KeyError", 183, "keys")
            /\ UNCHANGED <<rsa_key, events>>
       ELSE LET scan == ScanKeys(jwks.keys, unverified_header, 1)
            IN  /\ events' = events \o scan.evs
                /\ rsa_key' = scan.key
                /\ IF scan.out.kind # "ok"
                   THEN vpc' = "done" /\ vresult' = scan.out
                   ELSE IF scan.key = "none"
                   THEN /\ vpc' = "done"
                        /\ vresult' = Raise("VtpmValidationError", 191, "kid")
                   ELSE vpc' = "oidc_decode" /\ vresult' = vresult
    /\ UNCHANGED <<validator, token, now, unverified_header, scheme, jwks,
                   root_cert, certs>>
    /\ UNCHANGED nonValidationVars

\* Variant: audience verification left on, as in the PKI path.
decode_oidc_VerifyAud(tok, key, t) ==
    LET d == jwt_decode(tok, key, TRUE, t)
    IN  IF d.kind = "claims"
        THEN VResult("claims", 216, "none", 0, "", d.value)
        ELSE IF d.kind = "ExpiredSignatureError"
        THEN VResult("SignatureValidationError", 206, d.kind, 195, "", <<>>)
        ELSE VResult("VtpmValidationError", 210, d.kind, 195, "", <<>>)

\* lines 194-216: decode with verify_aud off and map the failures.
decode_oidc(tok, key, t) ==
    LET d == jwt_decode(tok, key, FALSE, t)
    IN  IF d.kind = "claims"
        THEN VResult("claims", 216, "none", 0, "", d.value)
        ELSE IF d.kind = "ExpiredSignatureError"
        THEN VResult("SignatureValidationError", 206, d.kind, 195, "", <<>>)
        ELSE IF d.kind \in InvalidTokenErrors
        THEN VResult("VtpmValidationError", 210, d.kind, 195, "", <<>>)
        ELSE VResult("VtpmValidationError", 214, d.kind, 195, "", <<>>)

DecodeOidc ==
    /\ vpc = "oidc_decode"
    /\ events' = Append(events, Ev("jwt_decode", 0))
    /\ vresult' = decode_oidc(token, rsa_key, now)
    /\ vpc' = "done"
    /\ UNCHANGED <<validator, token, now, unverified_header, scheme, jwks,
                   rsa_key, root_cert, certs>>
    /\ UNCHANGED nonValidationVars

(***************************************************************************)
(* _decode_and_validate_pki                                                *)
(***************************************************************************)
\* lines 239-240: fetch the root certificate and load it as PEM.
fetch_root(r) ==
    IF get_well_known_file(r).kind # "ok" THEN get_well_known_file(r)
    ELSE IF ~r.pem_ok THEN Raise("ValueError", 240, "")
    ELSE Ok

FetchRoot ==
    /\ vpc = "pki_fetch"
    /\ \/ \E r \in RootResponses :
            /\ events' = Append(events, Ev("fetch_root", r.status_code))
            /\ IF fetch_root(r).kind = "ok"
               THEN /\ vpc' = "pki_fingerprint"
                    /\ vresult' = vresult
                    /\ root_cert' = r.cert
               ELSE /\ vpc' = "done"
                    /\ vresult' = fetch_root(r)
                    /\ root_cert' = root_cert
       \/ /\ events' = Append(events, Ev("fetch_root", 0))
          /\ vpc' = "done"
          /\ vresult' = Raise("ConnectionError", 295, "")
          /\ root_cert' = root_cert
    /\ UNCHANGED <<validator, token, now, unverified_header, scheme, jwks,
                   rsa_key, certs>>
    /\ UNCHANGED nonValidationVars

\* lines 241-247
CheckFingerprint ==
    /\ vpc = "pki_fingerprint"
    /\ events' = Append(events, Ev("check_fingerprint", 0))
    /\ IF calculated_fingerprint(root_cert) # CERT_FINGERPRINT
       THEN /\ vpc' = "done"
            /\ vresult' = Raise("VtpmValidationError", 247, "")
       ELSE /\ vpc' = "pki_extract"
            /\ vresult' = vresult
    /\ UNCHANGED <<validator, token, now, unverified_header, scheme, jwks,
                   rsa_key, root_cert, certs>>
    /\ UNCHANGED nonValidationVars

\* lines 266-271: what the except clauses of the try block make of an
\* exception e raised inside it.  The typed errors of the checks are
\* Exceptions too: each leaves as a plain VtpmValidationError raised from e,
\* its message holding e's.
PkiWrap(e) ==
    IF e.kind \in InvalidTokenErrors \cup {"InvalidKey"}
    THEN VResult("VtpmValidationError", 268, e.kind, e.line, e.detail, <<>>)
    ELSE VResult("VtpmValidationError", 271, e.kind, e.line, e.detail, <<>>)

\* First x5c entry that does not decode, 0 if all do.
FirstUndecodable(x5c) ==
    IF \E i \in 1..Len(x5c) : ~x5c[i].der_ok
    THEN CHOOSE i \in 1..Len(x5c) :
            ~x5c[i].der_ok /\ \A j \in 1..(i - 1) : x5c[j].der_ok
    ELSE 0

\* Variant: the entries are decoded before they are counted.
extract_and_validate_certificates_DecodeFirst(header) ==
    LET k == FirstUndecodable(header.x5c)
    IN  IF k # 0
        THEN [out |-> Raise("CertificateParsingError", 412, ""),
              evs |-> [i \in 1..k |-> Ev("decode_cert", i)]]
        ELSE IF Len(header.x5c) # CERT_COUNT
        THEN [out |-> Raise("VtpmValidationError", 376, ""),
              evs |-> [i \in 1..Len(header.x5c) |-> Ev("decode_cert", i)]]
        ELSE [out |-> Ok,
              evs |-> [i \in 1..CERT_COUNT |-> Ev("decode_cert", i)]]

\* _extract_and_validate_certificates, lines 372-383, with
\* _decode_der_certificate, lines 402-412: the count first, then the entries
\* in order.  CertificateParsingError is not a ValueError or TypeError, so
\* line 381 lets it pass.
extract_and_validate_certificates(header) ==
    IF ~header.has_x5c \/ header.x5c = <<>> \/ Len(header.x5c) # CERT_COUNT
    THEN [out |-> Raise("VtpmValidationError", 376, ""), evs |-> <<>>]
    ELSE LET k == FirstUndecodable(header.x5c)
         IN  IF k = 0
             THEN [out |-> Ok,
                   evs |-> [i \in 1..CERT_COUNT |-> Ev("decode_cert", i)]]
             ELSE [out |-> Raise("CertificateParsingError", 412, ""),
                   evs |-> [i \in 1..k |-> Ev("decode_cert", i)]]

\* line 249
ExtractCertificates ==
    /\ vpc = "pki_extract"
    /\ LET x == extract_and_validate_certificates(unverified_header)
       IN  /\ events' = Append(events, Ev("extract", 0)) \o x.evs
           /\ IF x.out.kind = "ok"
              THEN /\ certs' = [leaf_cert |-> unverified_header.x5c[1],
                                intermediate_cert |-> unverified_header.x5c[2],
                                root_cert |-> unverified_header.x5c[3]]
                   /\ vpc' = "pki_leaf"
                   /\ vresult' = vresult
              ELSE /\ certs' = certs
                   /\ vpc' = "done"
                   /\ vresult' = PkiWrap(x.out)
    /\ UNCHANGED <<validator, token, now, unverified_header, scheme, jwks,
                   rsa_key, root_cert>>
    /\ UNCHANGED nonValidationVars

\* Variant: the leaf's key type is not looked at.
validate_leaf_certificate_HashOnly(leaf_cert) ==
    IF leaf_cert.hash = "none" THEN Raise("SignatureValidationError", 418, "")
    ELSE IF leaf_cert.hash # CERT_HASH_ALGO
        THEN Raise("SignatureValidationError", 423, "")
    ELSE Ok

\* _validate_leaf_certificate, lines 414-427
validate_leaf_certificate(leaf_cert) ==
    IF leaf_cert.hash = "none" THEN Raise("SignatureValidationError", 418, "")
    ELSE IF leaf_cert.hash # CERT_HASH_ALGO
        THEN Raise("SignatureValidationError", 423, "")
    ELSE IF leaf_cert.keytype # "RSA"
        THEN Raise("SignatureValidationError", 427, "")
    ELSE Ok

\* Variant: the embedded root is not compared with the fetched one.
compare_root_certificates_Skipped(token_root_cert, fetched) == Ok

\* _compare_root_certificates, lines 433-444: SHA-256 of the two TBS contents.
compare_root_certificates(token_root_cert, fetched) ==
    IF fetched.tbs # token_root_cert.tbs
    THEN Raise("VtpmValidationError", 441, "")
    ELSE Ok

\* _is_certificate_valid, lines 522-524
is_certificate_valid(cert, current_time) ==
    cert.not_before <= current_time /\ current_time <= cert.not_after

\* _check_certificate_validity, lines 493-502: leaf, intermediate, root.
check_certificate_validity(cs, current_time) ==
    IF ~is_certificate_valid(cs.leaf_cert, current_time)
    THEN Raise("InvalidCertificateChainError", 502, "Leaf")
    ELSE IF ~is_certificate_valid(cs.intermediate_cert, current_time)
    THEN Raise("InvalidCertificateChainError", 502, "Intermediate")
    ELSE IF ~is_certificate_valid(cs.root_cert, current_time)
    THEN Raise("InvalidCertificateChainError", 502, "Root")
    ELSE Ok

\* X509StoreContext.verify_certificate with root and intermediate in the
\* store: leaf signed by the intermediate, intermediate by the root, the root
\* self-signed.
ChainVerifies(cs) ==
    /\ cs.leaf_cert.signed_by = cs.intermediate_cert.key
    /\ cs.intermediate_cert.signed_by = cs.root_cert.key
    /\ cs.root_cert.signed_by = cs.root_cert.key

\* line 250
ValidateLeaf ==
    /\ vpc = "pki_leaf"
    /\ events' = Append(events, Ev("validate_leaf", 0))
    /\ LET out == validate_leaf_certificate(certs.leaf_cert)
       IN  IF out.kind = "ok"
           THEN vpc' = "pki_compare" /\ vresult' = vresult
           ELSE vpc' = "done" /\ vresult' = PkiWrap(out)
    /\ UNCHANGED <<validator, token, now, unverified_header, scheme, jwks,
                   rsa_key, root_cert, certs>>
    /\ UNCHANGED nonValidationVars

\* Variant: the validity windows are checked before the roots are compared.
CompareRoots_ValidityFirst ==
    /\ vpc = "pki_compare"
    /\ events' = Append(events, Ev("compare_roots", 0))
    /\ LET out == compare_root_certificates(certs.root_cert, root_cert)
           early == check_certificate_validity(certs, now)
       IN  IF early.kind # "ok"
           THEN vpc' = "done" /\ vresult' = PkiWrap(early)
           ELSE IF out.kind = "ok"
           THEN vpc' = "pki_validity" /\ vresult' = vresult
           ELSE vpc' = "done" /\ vresult' = PkiWrap(out)
    /\ UNCHANGED <<validator, token, now, unverified_header, scheme, jwks,
                   rsa_key, root_cert, certs>>
    /\ UNCHANGED nonValidationVars

\* line 251
CompareRoots ==
    /\ vpc = "pki_compare"
    /\ events' = Append(events, Ev("compare_roots", 0))
    /\ LET out == compare_root_certificates(certs.root_cert, root_cert)
       IN  IF out.kind = "ok"
           THEN vpc' = "pki_validity" /\ vresult' = vresult
           ELSE vpc' = "done" /\ vresult' = PkiWrap(out)
    /\ UNCHANGED <<validator, token, now, unverified_header, scheme, jwks,
                   rsa_key, root_cert, certs>>
    /\ UNCHANGED nonValidationVars

\* line 252
CheckValidity ==
    /\ vpc = "pki_validity"
    /\ events' = Append(events, Ev("check_validity", 0))
    /\ LET out == check_certificate_validity(certs, now)
       IN  IF out.kind = "ok"
           THEN vpc' = "pki_chain" /\ vresult' = vresult
           ELSE vpc' = "done" /\ vresult' = PkiWrap(out)
    /\ UNCHANGED <<validator, token, now, unverified_header, scheme, jwks,
                   rsa_key, root_cert, certs>>
    /\ UNCHANGED nonValidationVars

\* The exception a failed chain verification leaves _verify_certificate_chain
\* with: pyOpenSSL raises X509StoreContextError, which line 472 turns into
\* InvalidCertificateChainError only where that class derives from
\* OpenSSL.crypto.Error.
ChainFailures ==
    {Raise("InvalidCertificateChainError", 474, ""),
     Raise("X509StoreContextError", 470, "")}

\* line 253; _verify_certificate_chain, lines 462-474
VerifyChain ==
    /\ vpc = "pki_chain"
    /\ events' = Append(events, Ev("verify_chain", 0))
    /\ IF ChainVerifies(certs)
       THEN vpc' = "pki_decode" /\ vresult' = vresult
       ELSE /\ vpc' = "done"
            /\ \E failure \in ChainFailures : vresult' = PkiWrap(failure)
    /\ UNCHANGED <<validator, token, now, unverified_header, scheme, jwks,
                   rsa_key, root_cert, certs>>
    /\ UNCHANGED nonValidationVars

\* lines 255-265: jwt.decode with the leaf's public key; audience
\* verification is left on.
decode_pki(tok, cs, t) ==
    LET d == jwt_decode(tok, cs.leaf_cert.key, TRUE, t)
    IN  IF d.kind = "claims"
        THEN VResult("claims", 265, "none", 0, "", d.value)
        ELSE PkiWrap([d EXCEPT !.line = 261])

DecodePki ==
    /\ vpc = "pki_decode"
    /\ events' = Append(events, Ev("jwt_decode", 0))
    /\ vresult' = decode_pki(token, certs, now)
    /\ vpc' = "done"
    /\ UNCHANGED <<validator, token, now, unverified_header, scheme, jwks,
                   rsa_key, root_cert, certs>>
    /\ UNCHANGED nonValidationVars

\* The caller has the result; the call's frame and its locals are gone.
ValidateDone ==
    /\ vpc = "done"
    /\ vpc' = "idle"
    /\ token' = MalformedToken
    /\ now' = 1
    /\ unverified_header' = MalformedToken.header
    /\ scheme' = "none"
    /\ events' = <<>>
    /\ jwks' = Response(0, FALSE, FALSE, <<>>, FALSE, NoCert)
    /\ rsa_key' = "none"
    /\ root_cert' = NoCert
    /\ certs' = <<>>
    /\ vresult' = NoVResult
    /\ UNCHANGED validator
    /\ UNCHANGED nonValidationVars

NextValidate ==
    \/ ValidateCall
    \/ GetUnverifiedHeader
    \/ CheckAlgorithm
    \/ Dispatch
    \/ FetchConfig
    \/ FetchJwks
    \/ FindKey
    \/ DecodeOidc
    \/ FetchRoot
    \/ CheckFingerprint
    \/ ExtractCertificates
    \/ ValidateLeaf
    \/ CompareRoots
    \/ CheckValidity
    \/ VerifyChain
    \/ DecodePki
    \/ ValidateDone

(***************************************************************************)
(* prompts/schemas.py: Prompt.format                                       *)
(***************************************************************************)
MaxKwargs == 2

\* A template is a sequence of pieces: literal text, or a placeholder ${text}.
Lit(text) == [var |-> FALSE, text |-> text]
Var(name) == [var |-> TRUE, text |-> name]

\* required_inputs is a list of names or None.
PromptOf(name, template, has, req) ==
    [name |-> name, template |-> template, has_required |-> has,
     required_inputs |-> req]

\* Prompts of the library (prompts/library.py), and one built with an empty
\* list of required inputs.
Prompts ==
    {PromptOf("semantic_router", <<Lit("Input: "), Var("user_input")>>,
              TRUE, <<"user_input">>),
     PromptOf("generate_account",
              <<Lit("EXACTLY as provided, make no changes: "), Var("address")>>,
              TRUE, <<"address">>),
     PromptOf("request_attestation", <<Lit("Attestation requested.")>>,
              FALSE, <<>>),
     PromptOf("tx_confirmation",
              <<Lit("[See transaction on Explorer]("), Var("block_explorer"),
                Lit("/tx/"), Var("tx_hash"), Lit(")")>>,
              TRUE, <<"tx_hash", "block_explorer">>),
     PromptOf("custom", <<Lit("Hello "), Var("user_input")>>, TRUE, <<>>)}

KwargNames == {"address", "user_input", "tx_hash", "block_explorer", "wrong_input"}
KwargValues == {"test", "0xabc"}

\* Keyword arguments: up to MaxKwargs names, each with a value.
KwargSets ==
    UNION {[S -> KwargValues] :
             S \in {T \in SUBSET KwargNames : Cardinality(T) <= MaxKwargs}}

NoFormatted == [kind |-> "none", line |-> 0, value |-> <<>>]

\* string.Template.safe_substitute: a placeholder whose name is supplied is
\* replaced by its value, any other placeholder stays in the text as it is;
\* no KeyError is raised for a missing name.
safe_substitute(template, kw) ==
    [i \in 1..Len(template) |->
        IF template[i].var /\ template[i].text \in DOMAIN kw
        THEN Lit(kw[template[i].text])
        ELSE template[i]]

\* Prompt.format, lines 170-180.  The except clause of line 175 is never
\* entered: safe_substitute raises no KeyError.
format(p, kw) ==
    IF ~p.has_required \/ p.required_inputs = <<>>
    THEN [kind |-> "str", line |-> 171, value |-> p.template]
    ELSE [kind |-> "str", line |-> 174, value |-> safe_substitute(p.template, kw)]

InitPrompt ==
    /\ prompt = PromptOf("request_attestation", <<Lit("Attestation requested.")>>,
                         FALSE, <<>>)
    /\ kwargs = <<>>
    /\ formatted = NoFormatted

\* A caller formats a prompt: prompt.format(**kwargs).
Format ==
    /\ \E p \in Prompts, kw \in KwargSets :
        /\ prompt' = p
        /\ kwargs' = kw
        /\ formatted' = format(p, kw)
    /\ UNCHANGED nonPromptVars

(***************************************************************************)
(* blockchain/flare.py: FlareProvider                                      *)
(***************************************************************************)
MaxQueue == 2
MaxResets == 2

Accounts == {"0xA1", "0xA2"}
KeyOf(a) == IF a = "0xA1" THEN "key1" ELSE "key2"

Msgs == {"send", "swap"}
Txs == {"tx1", "tx2"}

\* TxQueueElement, lines 17-28
TxQueueElement(msg, tx) == [msg |-> msg, tx |-> tx]

\* What the node does with a transaction handed to it: it signs, accepts and
\* mines it, or one of the three web3 calls of lines 130-134 raises.
NetOutcomes == {"mined", "sign_error", "send_error", "receipt_timeout"}

\* op: the method called;  kind: "ok" or the exception class;  line: the line
\* that raised;  value: what was returned;  broadcast: the transactions the
\* node accepted during the call.
FlareResult(op, kind, line, value, broadcast) ==
    [op |-> op, kind |-> kind, line |-> line, value |-> value,
     broadcast |-> broadcast]

NoFlareResult == FlareResult("none", "none", 0, "", <<>>)

\* lines 47-58
InitFlareProvider ==
    /\ address = "None"
    /\ private_key = "None"
    /\ tx_queue = <<>>
    /\ since_reset = {}
    /\ resets = 0
    /\ flare_result = NoFlareResult

\* Variant: reset forgets the address but keeps the private key.
Reset_KeepsKey ==
    /\ resets < MaxResets
    /\ address' = "None"
    /\ private_key' = private_key
    /\ tx_queue' = <<>>
    /\ since_reset' = {}
    /\ resets' = resets + 1
    /\ flare_result' = FlareResult("reset", "ok", 0, "", <<>>)
    /\ UNCHANGED nonFlareVars

\* reset, lines 60-67
Reset ==
    /\ resets < MaxResets
    /\ address' = "None"
    /\ private_key' = "None"
    /\ tx_queue' = <<>>
    /\ since_reset' = {}
    /\ resets' = resets + 1
    /\ flare_result' = FlareResult("reset", "ok", 0, "", <<>>)
    /\ UNCHANGED nonFlareVars

\* add_tx_to_queue, lines 69-79
AddTxToQueue ==
    /\ Len(tx_queue) < MaxQueue
    /\ \E msg \in Msgs, tx \in Txs :
        tx_queue' = Append(tx_queue, TxQueueElement(msg, tx))
    /\ since_reset' = since_reset \cup {"add_tx_to_queue"}
    /\ flare_result' = FlareResult("add_tx_to_queue", "ok", 0, "", <<>>)
    /\ UNCHANGED <<address, private_key, resets>>
    /\ UNCHANGED nonFlareVars

\* sign_and_send_transaction, lines 114-136, for the node's outcome n.
sign_and_send_transaction(tx, key, addr, n) ==
    IF key = "None" \/ addr = "None"
    THEN FlareResult("send_tx_in_queue", "ValueError", 129, "", <<>>)
    ELSE IF n = "sign_error"
    THEN FlareResult("send_tx_in_queue", "TypeError", 130, "", <<>>)
    ELSE IF n = "send_error"
    THEN FlareResult("send_tx_in_queue", "Web3RPCError", 133, "", <<>>)
    ELSE IF n = "receipt_timeout"
    THEN FlareResult("send_tx_in_queue", "TimeExhausted", 134, "", <<tx>>)
    ELSE FlareResult("send_tx_in_queue", "ok", 136, tx, <<tx>>)

\* Variant: the oldest transaction of the queue is sent and removed.
SendTxInQueue_Fifo ==
    /\ \E n \in NetOutcomes :
        IF tx_queue # <<>>
        THEN LET r == sign_and_send_transaction(tx_queue[1].tx, private_key,
                                                address, n)
             IN  /\ flare_result' = r
                 /\ tx_queue' = IF r.kind = "ok" THEN Tail(tx_queue) ELSE tx_queue
        ELSE /\ flare_result' =
                    FlareResult("send_tx_in_queue", "ValueError", 97, "", <<>>)
             /\ tx_queue' = tx_queue
    /\ since_reset' = since_reset \cup {"send_tx_in_queue"}
    /\ UNCHANGED <<address, private_key, resets>>
    /\ UNCHANGED nonFlareVars

\* Variant: the transaction is taken off the queue before it is sent.
SendTxInQueue_PopFirst ==
    /\ \E n \in NetOutcomes :
        IF tx_queue # <<>>
        THEN /\ flare_result' =
                    sign_and_send_transaction(tx_queue[Len(tx_queue)].tx,
                                              private_key, address, n)
             /\ tx_queue' = SubSeq(tx_queue, 1, Len(tx_queue) - 1)
        ELSE /\ flare_result' =
                    FlareResult("send_tx_in_queue", "ValueError", 97, "", <<>>)
             /\ tx_queue' = tx_queue
    /\ since_reset' = since_reset \cup {"send_tx_in_queue"}
    /\ UNCHANGED <<address, private_key, resets>>
    /\ UNCHANGED nonFlareVars

\* send_tx_in_queue, lines 91-97: the last element is sent and, when that
\* returned, popped.
SendTxInQueue ==
    /\ \E n \in NetOutcomes :
        IF tx_queue # <<>>
        THEN LET r == sign_and_send_transaction(tx_queue[Len(tx_queue)].tx,
                                                private_key, address, n)
             IN  /\ flare_result' = r
                 /\ tx_queue' = IF r.kind = "ok"
                                THEN SubSeq(tx_queue, 1, Len(tx_queue) - 1)
                                ELSE tx_queue
        ELSE /\ flare_result' =
                    FlareResult("send_tx_in_queue", "ValueError", 97, "", <<>>)
             /\ tx_queue' = tx_queue
    /\ since_reset' = since_reset \cup {"send_tx_in_queue"}
    /\ UNCHANGED <<address, private_key, resets>>
    /\ UNCHANGED nonFlareVars

\* generate_account, lines 106-112: a fresh key pair.
GenerateAccount ==
    /\ \E a \in Accounts :
        /\ private_key' = KeyOf(a)
        /\ address' = a
        /\ flare_result' = FlareResult("generate_account", "ok", 112, a, <<>>)
    /\ since_reset' = since_reset \cup {"generate_account"}
    /\ UNCHANGED <<tx_queue, resets>>
    /\ UNCHANGED nonFlareVars

\* check_balance, lines 148-153; the node may not answer.
CheckBalance ==
    /\ \E answered \in BOOLEAN :
        flare_result' =
            IF address = "None"
            THEN FlareResult("check_balance", "ValueError", 150, "", <<>>)
            ELSE IF ~answered
            THEN FlareResult("check_balance", "ConnectionError", 151, "", <<>>)
            ELSE FlareResult("check_balance", "ok", 153, "balance", <<>>)
    /\ since_reset' = since_reset \cup {"check_balance"}
    /\ UNCHANGED <<address, private_key, tx_queue, resets>>
    /\ UNCHANGED nonFlareVars

\* create_send_flr_tx, lines 169-183; the node may not answer, and
\* to_checksum_address refuses a malformed recipient with a ValueError
\* subclass.
CreateSendFlrTx ==
    /\ \E answered \in BOOLEAN, to_ok \in BOOLEAN :
        flare_result' =
            IF address = "None"
            THEN FlareResult("create_send_flr_tx", "ValueError", 171, "", <<>>)
            ELSE IF ~answered
            THEN FlareResult("create_send_flr_tx", "ConnectionError", 174, "", <<>>)
            ELSE IF ~to_ok
            THEN FlareResult("create_send_flr_tx", "InvalidAddress", 175, "", <<>>)
            ELSE FlareResult("create_send_flr_tx", "ok", 183, "tx", <<>>)
    /\ since_reset' = since_reset \cup {"create_send_flr_tx"}
    /\ UNCHANGED <<address, private_key, tx_queue, resets>>
    /\ UNCHANGED nonFlareVars

NextFlare ==
    \/ Reset
    \/ AddTxToQueue
    \/ SendTxInQueue
    \/ GenerateAccount
    \/ CheckBalance
    \/ CreateSendFlrTx

(***************************************************************************)
(* blockchain_verifier.py: FlareVerifier.verify_transactions, and the      *)
(* monitoring loop of main.py.                                             *)
(***************************************************************************)
MaxReports == 2

\* A high-risk report as prepare_high_risk_reports builds it: a dictionary
\* with transaction_hash and risk_hash; has_risk_hash is FALSE for a report
\* handed to verify_transactions without the second key.
Report(h, has) == [transaction_hash |-> h, has_risk_hash |-> has]

Reports == {Report(h, has) : h \in {"0xaa", "0xbb"}, has \in BOOLEAN}

ReportLists == ListsUpTo(Reports, MaxReports)

\* How the submission of one report ends: a receipt with status 1, a receipt
\* with status 0, or an exception of one of the calls of lines 35-50.
SubmitOutcomes == {"status1", "status0", "exception"}

\* One pass of the loop body, lines 33-64, for report number i; the
\* verification transaction is identified by that number.
verify_one(report, i, outcome) ==
    IF ~report.has_risk_hash \/ outcome = "exception"
    THEN [transaction_hash |-> report.transaction_hash, status |-> "error",
          verification_tx |-> 0, line |-> 60]
    ELSE [transaction_hash |-> report.transaction_hash,
          status |-> IF outcome = "status1" THEN "verified" ELSE "failed",
          verification_tx |-> i, line |-> 52]

\* alert_data of main.py lines 44-51 for a result.
AlertData(vr) ==
    [event_data |-> [transaction_hash |-> vr.transaction_hash,
                     verification_tx |-> vr.verification_tx],
     keys |-> {"transaction_hash", "verification_tx"}]

\* AlertSystem.send_alert, alert_system.py lines 24-52: the body of line 26
\* reads token0, token1 and change_percentage of event_data before the mail
\* is built; a missing key raises KeyError outside the try of line 45.
send_alert(analysis) ==
    IF {"token0", "token1", "change_percentage"} \subseteq analysis.keys
    THEN "ok" ELSE "KeyError"

InitVerifier ==
    /\ mpc = "idle"
    /\ high_risk_reports = <<>>
    /\ verification_results = <<>>
    /\ next_report = 1
    /\ alert_calls = <<>>
    /\ main_result = "none"

\* main.py lines 26-36: fetch, analyse, prepare the reports; with reports,
\* verify_transactions is called; an exception on the way leaves the try.
MainFetch ==
    /\ mpc = "idle"
    /\ \/ \E rs \in ReportLists :
            /\ high_risk_reports' = rs
            /\ mpc' = IF rs # <<>> THEN "verify" ELSE "sleep"
            /\ main_result' = IF rs # <<>> THEN "running" ELSE "ok"
       \/ /\ high_risk_reports' = <<>>
          /\ mpc' = "sleep"
          /\ main_result' = "Exception"
    /\ verification_results' = <<>>
    /\ next_report' = 1
    /\ alert_calls' = <<>>
    /\ UNCHANGED nonVerifierVars

\* Variant: an exception while submitting a report ends the loop.
VerifyReport_StopOnError ==
    /\ mpc = "verify"
    /\ next_report <= Len(high_risk_reports)
    /\ \E outcome \in SubmitOutcomes :
        LET r == verify_one(high_risk_reports[next_report], next_report, outcome)
        IN  IF r.status = "error"
            THEN /\ verification_results' = verification_results
                 /\ next_report' = Len(high_risk_reports) + 1
            ELSE /\ verification_results' = Append(verification_results, r)
                 /\ next_report' = next_report + 1
    /\ UNCHANGED <<mpc, high_risk_reports, alert_calls, main_result>>
    /\ UNCHANGED nonVerifierVars

\* verify_transactions, lines 32-64: the next report is submitted and its
\* result appended.
VerifyReport ==
    /\ mpc = "verify"
    /\ next_report <= Len(high_risk_reports)
    /\ \E outcome \in SubmitOutcomes :
        verification_results' =
            Append(verification_results,
                   verify_one(high_risk_reports[next_report], next_report, outcome))
    /\ next_report' = next_report + 1
    /\ UNCHANGED <<mpc, high_risk_reports, alert_calls, main_result>>
    /\ UNCHANGED nonVerifierVars

\* line 66, and main.py line 36: the results are back in main.
VerifyReturn ==
    /\ mpc = "verify"
    /\ next_report > Len(high_risk_reports)
    /\ mpc' = "alerts"
    /\ next_report' = 1
    /\ UNCHANGED <<high_risk_reports, verification_results, alert_calls,
                   main_result>>
    /\ UNCHANGED nonVerifierVars

\* main.py lines 39-53 for the next result: a verified one is handed to
\* send_alert, whose exception leaves the loop and the try of line 24.
AlertStep ==
    /\ mpc = "alerts"
    /\ next_report <= Len(verification_results)
    /\ LET vr == verification_results[next_report]
       IN  IF vr.status = "verified"
           THEN /\ alert_calls' = Append(alert_calls, AlertData(vr))
                /\ IF send_alert(AlertData(vr)) = "ok"
                   THEN /\ next_report' = next_report + 1
                        /\ UNCHANGED <<mpc, main_result>>
                   ELSE /\ mpc' = "sleep"
                        /\ main_result' = send_alert(AlertData(vr))
                        /\ next_report' = next_report
           ELSE /\ next_report' = next_report + 1
                /\ UNCHANGED <<mpc, alert_calls, main_result>>
    /\ UNCHANGED <<high_risk_reports, verification_results>>
    /\ UNCHANGED nonVerifierVars

\* main.py line 39: the loop over the results is through.
AlertsDone ==
    /\ mpc = "alerts"
    /\ next_report > Len(verification_results)
    /\ mpc' = "sleep"
    /\ main_result' = "ok"
    /\ UNCHANGED <<high_risk_reports, verification_results, next_report,
                   alert_calls>>
    /\ UNCHANGED nonVerifierVars

\* main.py lines 55 and 59: sleep, then the next iteration.
MainSleep ==
    /\ mpc = "sleep"
    /\ mpc' = "idle"
    /\ high_risk_reports' = <<>>
    /\ verification_results' = <<>>
    /\ next_report' = 1
    /\ alert_calls' = <<>>
    /\ main_result' = "none"
    /\ UNCHANGED nonVerifierVars

NextVerifier ==
    \/ MainFetch
    \/ VerifyReport
    \/ VerifyReturn
    \/ AlertStep
    \/ AlertsDone
    \/ MainSleep

(***************************************************************************)
(* Two validate_token calls on one validator.                              *)
(***************************************************************************)
\* The locals and the position of a validate_token call.  Nothing of a call
\* lives on the validator object or in the module (lines 121-271 assign no
\* attribute of self and no global).
Frame(p, tok, t, h, s, e, j, k, r, c, v) ==
    [vpc |-> p, token |-> tok, now |-> t, unverified_header |-> h,
     scheme |-> s, events |-> e, jwks |-> j, rsa_key |-> k, root_cert |-> r,
     certs |-> c, vresult |-> v]

RunningFrame ==
    Frame(vpc, token, now, unverified_header, scheme, events, jwks, rsa_key,
          root_cert, certs, vresult)

\* No call.
IdleFrame ==
    Frame("idle", MalformedToken, 1, MalformedToken.header, "none", <<>>,
          Response(0, FALSE, FALSE, <<>>, FALSE, NoCert), "none", NoCert, <<>>,
          NoVResult)

\* A call that has just entered validate_token(tok) at clock t.
EnteredFrame(tok, t) == [IdleFrame EXCEPT !.vpc = "header", !.token = tok, !.now = t]

InitParked == parked = IdleFrame

\* Variant: the key found by a call is kept on the validator, where the other
\* call finds it.
Switch_SharedKey ==
    /\ parked.vpc \notin {"idle", "done"}
    /\ parked' = RunningFrame
    /\ vpc' = parked.vpc
    /\ token' = parked.token
    /\ now' = parked.now
    /\ unverified_header' = parked.unverified_header
    /\ scheme' = parked.scheme
    /\ events' = parked.events
    /\ jwks' = parked.jwks
    /\ rsa_key' = rsa_key
    /\ root_cert' = parked.root_cert
    /\ certs' = parked.certs
    /\ vresult' = parked.vresult
    /\ UNCHANGED <<validator, tokenVars, promptVars, flareVars, verifierVars>>

\* The interpreter suspends the running call and resumes the other one; each
\* call finds its own locals.
Switch ==
    /\ parked.vpc \notin {"idle", "done"}
    /\ parked' = RunningFrame
    /\ vpc' = parked.vpc
    /\ token' = parked.token
    /\ now' = parked.now
    /\ unverified_header' = parked.unverified_header
    /\ scheme' = parked.scheme
    /\ events' = parked.events
    /\ jwks' = parked.jwks
    /\ rsa_key' = parked.rsa_key
    /\ root_cert' = parked.root_cert
    /\ certs' = parked.certs
    /\ vresult' = parked.vresult
    /\ UNCHANGED <<validator, tokenVars, promptVars, flareVars, verifierVars>>

\* Tokens of the two calls: PKI and OIDC tokens that validate, an OIDC token
\* signed with another key of the same kid, a PKI token under another root, a
\* token of another algorithm and a string that is no token.
GoodPkiToken ==
    Token(TRUE,
          Header(ALGO, TRUE, <<WideLeafCert, WideIntermediateCert, PinnedRootCert>>,
                 "absent"),
          Payload("absent", 0), "LK")

RoguePkiToken ==
    Token(TRUE,
          Header(ALGO, TRUE, <<WideLeafCert, StrayIntermediateCert, RogueRootCert>>,
                 "absent"),
          Payload("absent", 2), "LK")

OidcTokenK1 ==
    Token(TRUE, Header(ALGO, FALSE, <<>>, "k1"), Payload("https://sts.google.com", 2),
          "K1")

OidcTokenK2 ==
    Token(TRUE, Header(ALGO, FALSE, <<>>, "k1"), Payload("absent", 0), "K2")

Hs256Token ==
    Token(TRUE, Header("HS256", FALSE, <<>>, "k1"), Payload("absent", 0), "XK")

FirstCallTokens == {GoodPkiToken, OidcTokenK1}
SecondCallTokens == {OidcTokenK2, RoguePkiToken, Hs256Token, MalformedToken}

(***************************************************************************)
(* Specifications.                                                         *)
(***************************************************************************)
InitOthers == InitParked /\ InitPrompt /\ InitFlareProvider /\ InitVerifier

InitToken == InitVtpm /\ InitVtpmValidation /\ InitOthers

NextToken ==
    \/ GetTokenCall
    \/ CheckNonceLength
    \/ SimReturn
    \/ SocketCreate
    \/ SocketConnect
    \/ SendRequest
    \/ GetResponse
    \/ CheckStatus
    \/ ReadDecode
    \/ CloseAndReturn
    \/ GetTokenDone

SpecToken == InitToken /\ [][NextToken]_vars

\* _check_nonce_length on its own, over the wide set of nonces.
InitNonce ==
    /\ simulate = TRUE
    /\ pc = "check_nonce"
    /\ nonces \in WideNonceLists
    /\ audience = "https://sts.google.com"
    /\ token_type = "OIDC"
    /\ client_socket = "none"
    /\ sock_ops = 0
    /\ posts = <<>>
    /\ res = NoResponse
    /\ result = NoResult
    /\ calls = 0
    /\ open_sockets = 0
    /\ InitVtpmValidation
    /\ InitOthers

NextNonce == CheckNonceLength

SpecNonce == InitNonce /\ [][NextNonce]_vars

\* validate_token calls on one validator.
InitValidate ==
    /\ InitVtpm
    /\ simulate = TRUE
    /\ InitVtpmValidation
    /\ InitOthers

SpecValidate == InitValidate /\ [][NextValidate]_vars

\* A workload with a real attestation endpoint: it validates tokens, one call
\* at a time, then requests tokens of its own.  The two classes share no
\* state; a call of one starts when no call of the other is running.
InitLifecycle ==
    /\ InitVtpm
    /\ simulate = FALSE
    /\ InitVtpmValidation
    /\ InitOthers

NextLifecycle ==
    \/ (pc = "idle" /\ calls = 0 /\ ValidateCall)
    \/ GetUnverifiedHeader
    \/ CheckAlgorithm
    \/ Dispatch
    \/ FetchConfig
    \/ FetchJwks
    \/ FindKey
    \/ DecodeOidc
    \/ FetchRoot
    \/ CheckFingerprint
    \/ ExtractCertificates
    \/ ValidateLeaf
    \/ CompareRoots
    \/ CheckValidity
    \/ VerifyChain
    \/ DecodePki
    \/ ValidateDone
    \/ (vpc = "idle" /\ GetTokenCall)
    \/ CheckNonceLength
    \/ SocketCreate
    \/ SocketConnect
    \/ SendRequest
    \/ GetResponse
    \/ CheckStatus
    \/ ReadDecode
    \/ CloseAndReturn
    \/ GetTokenDone

SpecLifecycle == InitLifecycle /\ [][NextLifecycle]_vars

\* Two validate_token calls that have just been entered, on one validator,
\* the interpreter switching between them at any step.
InitConcurrent ==
    /\ InitVtpm
    /\ simulate = TRUE
    /\ validator = [expected_issuer |-> "https://confidentialcomputing.googleapis.com",
                    oidc_endpoint |-> "/.well-known/openid-configuration",
                    pki_endpoint |-> "/.well-known/confidential_space_root.crt"]
    /\ \E tok \in FirstCallTokens :
        /\ vpc = EnteredFrame(tok, 1).vpc
        /\ token = tok
    /\ now = 1
    /\ unverified_header = IdleFrame.unverified_header
    /\ scheme = IdleFrame.scheme
    /\ events = IdleFrame.events
    /\ jwks = IdleFrame.jwks
    /\ rsa_key = IdleFrame.rsa_key
    /\ root_cert = IdleFrame.root_cert
    /\ certs = IdleFrame.certs
    /\ vresult = IdleFrame.vresult
    /\ \E tok \in SecondCallTokens, t \in {1, 3} : parked = EnteredFrame(tok, t)
    /\ InitPrompt
    /\ InitFlareProvider
    /\ InitVerifier

NextConcurrent ==
    \/ Switch
    \/ GetUnverifiedHeader
    \/ CheckAlgorithm
    \/ Dispatch
    \/ FetchConfig
    \/ FetchJwks
    \/ FindKey
    \/ DecodeOidc
    \/ FetchRoot
    \/ CheckFingerprint
    \/ ExtractCertificates
    \/ ValidateLeaf
    \/ CompareRoots
    \/ CheckValidity
    \/ VerifyChain
    \/ DecodePki

SpecConcurrent == InitConcurrent /\ [][NextConcurrent]_vars

\* The components around the token lifecycle, each on its own.
InitComponents ==
    /\ InitVtpm
    /\ simulate = TRUE
    /\ InitVtpmValidation
    /\ InitOthers

NextPrompt == Format

SpecPrompt == InitComponents /\ [][NextPrompt]_vars

\* Calls on one FlareProvider.
SpecFlare == InitComponents /\ [][NextFlare]_vars

\* The monitoring loop.
SpecVerifier == InitComponents /\ [][NextVerifier]_vars

(***************************************************************************)
(* Properties of get_token.                                                *)
(***************************************************************************)
\* UTF-8 length of a string by the width of each code point.
Utf8Width(cp) ==
    IF cp <= 127 THEN 1 ELSE IF cp <= 2047 THEN 2 ELSE IF cp <= 65535 THEN 3 ELSE 4

RECURSIVE EncodedLength(_)
EncodedLength(s) ==
    IF s = <<>> THEN 0 ELSE Utf8Width(Head(s)) + EncodedLength(Tail(s))

InRange(nonce) == EncodedLength(nonce) >= 10 /\ EncodedLength(nonce) <= 74

AllInRange(ns) == \A i \in 1..Len(ns) : InRange(ns[i])

\* C1: _check_nonce_length accepts a nonce list exactly when every nonce has a
\* UTF-8 byte length in [10, 74]; 10 and 74 bytes pass, 9 and 75 fail, and the
\* length is that of the encoded bytes, not the number of characters.
C1_NonceAcceptedIffInRange ==
    pc # "check_nonce" =>
        /\ (pc = "mode") <=> AllInRange(nonces)
        /\ (pc = "done") <=> ~AllInRange(nonces)
        /\ nonces = <<Rep(97, 10)>> => pc = "mode"
        /\ nonces = <<Rep(97, 74)>> => pc = "mode"
        /\ nonces = <<Rep(97, 9)>> => pc = "done"
        /\ nonces = <<Rep(97, 75)>> => pc = "done"
        /\ nonces = <<Rep(233, 5)>> => pc = "mode"
        /\ nonces = <<Rep(233, 38)>> => pc = "done"

\* A list is accepted that holds a nonce of fewer than 10 characters (10 bytes)
\* and one of 74 bytes.
C1_Witness ==
    /\ pc = "mode"
    /\ nonces = <<Rep(233, 5), Rep(97, 74)>>

\* C2: within a get_token call, in either mode, nothing touches a socket or
\* the endpoint before the nonce check has passed; a call with a nonce out of
\* range ends with the nonce error, no socket operation and no request.
C2_NonceCheckBeforeSocket ==
    /\ (pc \notin {"idle", "check_nonce"}
            /\ (client_socket # "none" \/ sock_ops > 0 \/ posts # <<>>))
        => AllInRange(nonces)
    /\ pc = "check_nonce"
        => (client_socket = "none" /\ sock_ops = 0 /\ posts = <<>>)
    /\ (pc = "done" /\ ~AllInRange(nonces))
        => /\ result.kind = "VtpmAttestationError"
           /\ result.line = 80
           /\ client_socket = "none"
           /\ sock_ops = 0
           /\ posts = <<>>

\* A real-mode call ended by the nonce error of its second nonce.
C2_Witness ==
    /\ pc = "done"
    /\ ~simulate
    /\ Len(nonces) = 2
    /\ InRange(nonces[1])
    /\ ~InRange(nonces[2])
    /\ result.kind = "VtpmAttestationError"
    /\ sock_ops = 0

\* C3: with simulate = TRUE every call whose nonces pass validation returns
\* the one fixed simulated token ("eyJ.sim", the stripped first line of the
\* token file), whatever the arguments and however many calls came before,
\* and touches no socket.
C3_SimulatedTokenFixed ==
    (simulate /\ pc = "done" /\ AllInRange(nonces)) =>
        /\ result.kind = "token"
        /\ result.value = <<101, 121, 74, 46, 115, 105, 109>>
        /\ client_socket = "none"
        /\ sock_ops = 0
        /\ posts = <<>>

\* A second simulated call, for a PKI token and another audience, has returned.
C3_Witness ==
    /\ simulate
    /\ pc = "done"
    /\ calls = 1
    /\ token_type = "PKI"
    /\ audience = "https://example.test"
    /\ nonces = <<Rep(97, 10)>>
    /\ result.kind = "token"

\* C4: the connection opened by get_token is closed on every exit path
\* before control returns: success, non-200 response, transport error.
C4_ConnectionClosedOnEveryExit ==
    pc = "done" => client_socket \in {"none", "closed"}

\* C5: a real-mode call that got a response has sent exactly one POST with
\* {audience, token_type, nonces}; a status other than 200 raises the
\* attestation error with status and reason, and a 200 status returns the
\* response body unchanged.
C5_OutcomeFixedByStatus ==
    (pc = "done" /\ res # NoResponse) =>
        /\ posts = <<[method |-> "POST",
                      body |-> [audience |-> audience, token_type |-> token_type,
                                nonces |-> nonces]]>>
        /\ res.status # 200 =>
            /\ result.kind = "VtpmAttestationError"
            /\ result.line = 140
            /\ result.value = [status |-> res.status, reason |-> res.reason]
        /\ res.status = 200 =>
            /\ result.kind = "token"
            /\ Utf8Encode(result.value) = res.body

(***************************************************************************)
(* Properties of validate_token.                                           *)
(***************************************************************************)
TypedErrors ==
    {"VtpmValidationError", "InvalidCertificateChainError",
     "CertificateParsingError", "SignatureValidationError"}

EventNames == {events[i].ev : i \in 1..Len(events)}

\* C6: a token whose header declares an algorithm other than RS256, or none,
\* fails with the validation error before any remote fetch and before any
\* certificate or key work, with or without x5c.
C6_AlgorithmRejectedBeforeAnyWork ==
    /\ (vpc = "done" /\ token.wellformed /\ token.header.alg # "RS256") =>
        /\ vresult.kind = "VtpmValidationError"
        /\ vresult.line = 146
        /\ EventNames = {"get_unverified_header", "check_alg"}
    /\ (EventNames \ {"get_unverified_header", "check_alg"} # {}) =>
        token.header.alg = "RS256"

\* A non-RS256 token with a full x5c chain has been rejected.
C6_Witness ==
    /\ vpc = "done"
    /\ token.header.alg = "HS256"
    /\ Len(token.header.x5c) = 3
    /\ vresult.kind = "VtpmValidationError"

PkiEvents ==
    {"fetch_root", "check_fingerprint", "extract", "decode_cert",
     "validate_leaf", "compare_roots", "check_validity", "verify_chain",
     "jwt_decode"}

OidcEvents ==
    {"fetch_oidc_config", "fetch_jwks", "examine_key", "jwk_to_rsa_key",
     "jwt_decode"}

PathEvents == EventNames \ {"get_unverified_header", "check_alg", "dispatch"}

\* C7 as stated: an RS256 token is validated by the PKI path if its header
\* carries the x5c field and by the OIDC path otherwise.
C7_FieldPresenceSelectsPki ==
    scheme # "none" => (scheme = "PKI" <=> token.header.has_x5c)

\* C7, amended: an RS256 token is validated by the PKI path if its header
\* carries a non-empty x5c field and by the OIDC path otherwise (field absent
\* or empty); the choice depends on the header alone.
C7_NonEmptyX5cSelectsPki ==
    /\ scheme # "none" =>
        /\ token.header.alg = "RS256"
        /\ scheme = "PKI" <=> (token.header.has_x5c /\ Len(token.header.x5c) > 0)
    /\ scheme = "PKI" => PathEvents \subseteq PkiEvents
    /\ scheme = "OIDC" => PathEvents \subseteq OidcEvents
    /\ scheme = "none" => PathEvents = {}

\* A token with an empty x5c field and an aud claim has gone down the OIDC path.
C7_Witness ==
    /\ scheme = "OIDC"
    /\ token.header.has_x5c
    /\ token.header.x5c = <<>>
    /\ token.payload.aud # "absent"
    /\ "fetch_jwks" \in EventNames

\* C8: every validate_token call ends with a claims mapping or with one of the
\* typed validation errors; no other exception reaches the caller.
C8_OnlyClaimsOrTypedErrors ==
    vpc = "done" => vresult.kind \in {"claims"} \cup TypedErrors

\* C9: in OIDC validation a non-200 response of the discovery endpoint, or of
\* the key-set endpoint, fails the call with the validation error.
C9_Non200IsValidationError ==
    (/\ vpc = "done"
     /\ \E i \in 1..Len(events) :
            /\ events[i].ev \in {"fetch_oidc_config", "fetch_jwks"}
            /\ events[i].arg \notin {0, 200})
    => vresult.kind \in TypedErrors

Outside(cert) == now < cert.not_before \/ now > cert.not_after

FirstOutside ==
    IF Outside(certs.leaf_cert) THEN "Leaf"
    ELSE IF Outside(certs.intermediate_cert) THEN "Intermediate"
    ELSE "Root"

\* C10: in PKI validation, when the clock is outside the inclusive validity
\* window of one of the three certificates (the intermediate expired, say),
\* the caller receives InvalidCertificateChainError naming the first such
\* certificate in the order leaf, intermediate, root.
C10_OutsideWindowIsInvalidChainError ==
    (/\ vpc = "done"
     /\ "check_validity" \in EventNames
     /\ \/ Outside(certs.leaf_cert)
        \/ Outside(certs.intermediate_cert)
        \/ Outside(certs.root_cert))
    => /\ vresult.kind = "InvalidCertificateChainError"
       /\ vresult.detail = FirstOutside

(***************************************************************************)
(* Properties of the PKI path.                                             *)
(***************************************************************************)
\* C11: in PKI validation, when the leaf is not signed by the intermediate or
\* the intermediate is not signed by the root, the caller receives
\* InvalidCertificateChainError.
C11_BrokenChainIsInvalidChainError ==
    (/\ vpc = "done"
     /\ "verify_chain" \in EventNames
     /\ \/ certs.leaf_cert.signed_by # certs.intermediate_cert.key
        \/ certs.intermediate_cert.signed_by # certs.root_cert.key)
    => vresult.kind = "InvalidCertificateChainError"

\* C12: in PKI validation, when the leaf certificate declares another hash
\* algorithm than sha256, or none, or holds no RSA public key, the caller
\* receives SignatureValidationError.
C12_BadLeafIsSignatureValidationError ==
    (/\ vpc = "done"
     /\ "validate_leaf" \in EventNames
     /\ \/ certs.leaf_cert.hash # "sha256"
        \/ certs.leaf_cert.keytype # "RSA")
    => vresult.kind = "SignatureValidationError"

\* C13: in PKI validation, when an entry of a three-entry x5c field cannot be
\* base64-decoded or parsed as a certificate, the caller receives
\* CertificateParsingError.
C13_UndecodableEntryIsParsingError ==
    (/\ vpc = "done"
     /\ "extract" \in EventNames
     /\ Len(token.header.x5c) = 3
     /\ \E i \in 1..3 : ~token.header.x5c[i].der_ok)
    => vresult.kind = "CertificateParsingError"

ChainEvents ==
    {"decode_cert", "validate_leaf", "compare_roots", "check_validity",
     "verify_chain", "jwt_decode"}

\* C14: in PKI validation an x5c field holding another number of certificates
\* than 3 fails with the validation error, and no certificate of that chain
\* is decoded, checked or used to verify a signature.
C14_WrongCountFailsBeforeAnyCertificate ==
    /\ (/\ vpc = "done"
        /\ "extract" \in EventNames
        /\ Len(token.header.x5c) # 3)
       => /\ vresult.kind = "VtpmValidationError"
          /\ vresult.cause_line = 376
          /\ EventNames \cap ChainEvents = {}
          /\ certs = <<>>
    /\ EventNames \cap ChainEvents # {} /\ scheme = "PKI"
       => Len(token.header.x5c) = 3
    /\ \A c \in X5cChains, has \in BOOLEAN :
          Len(c) # 3 =>
            LET x == extract_and_validate_certificates(Header("RS256", has, c, "absent"))
            IN  x.out.kind = "VtpmValidationError" /\ x.evs = <<>>

\* A chain of two entries, the first undecodable, has been refused on its count.
C14_Witness ==
    /\ vpc = "done"
    /\ scheme = "PKI"
    /\ Len(token.header.x5c) = 2
    /\ ~token.header.x5c[1].der_ok
    /\ vresult.kind = "VtpmValidationError"
    /\ vresult.cause_line = 376

HeaderCertEvents == {"extract"} \cup ChainEvents

UpperHex ==
    {"0", "1", "2", "3", "4", "5", "6", "7", "8", "9", "A", "B", "C", "D", "E", "F"}

\* C15: in PKI validation the fetched root certificate is fingerprinted
\* (SHA-1, colon-separated uppercase hex) and compared with the pinned
\* constant first; on mismatch the call fails with the validation error
\* before any certificate of the token header is extracted, parsed or checked.
C15_TrustAnchorCheckedFirst ==
    /\ (/\ vpc = "done"
        /\ "check_fingerprint" \in EventNames
        /\ root_cert.der # "root")
       => /\ vresult.kind = "VtpmValidationError"
          /\ vresult.line = 247
          /\ EventNames \cap HeaderCertEvents = {}
    /\ (scheme = "PKI" /\ EventNames \cap HeaderCertEvents # {})
       => ("check_fingerprint" \in EventNames /\ root_cert.der = "root")
    /\ ("check_fingerprint" \in EventNames /\ root_cert.der = "root")
       => /\ vresult.line # 247
          /\ vpc = "done" => "extract" \in EventNames
    /\ \A c \in {PinnedRootCert, RogueRootCert} :
          LET f == calculated_fingerprint(c)
          IN  /\ Len(f) = 59
              /\ \A i \in 1..59 :
                    IF i % 3 = 0 THEN f[i] = ":" ELSE f[i] \in UpperHex
              /\ (f = CERT_FINGERPRINT) <=> (c = PinnedRootCert)

\* The issuer served another root than the pinned one and the call ended at
\* the fingerprint comparison.
C15_Witness ==
    /\ vpc = "done"
    /\ root_cert = RogueRootCert
    /\ Len(token.header.x5c) = 3
    /\ vresult.line = 247
    /\ events[Len(events)].ev = "check_fingerprint"

\* C16: in PKI validation, when the content hash of the embedded root differs
\* from that of the fetched root the call fails with the validation error;
\* whenever PKI validation returns claims, the embedded root equals the
\* fetched root by content hash and the fetched root's fingerprint equals the
\* pinned trust anchor.
C16_EmbeddedRootEqualsFetchedRoot ==
    /\ (/\ vpc = "done"
        /\ "compare_roots" \in EventNames
        /\ certs.root_cert.tbs # root_cert.tbs)
       => /\ vresult.kind = "VtpmValidationError"
          /\ vresult.cause_line = 441
          /\ EventNames \cap {"check_validity", "verify_chain", "jwt_decode"} = {}
    /\ (scheme = "PKI" /\ vresult.kind = "claims")
       => /\ certs.root_cert.tbs = root_cert.tbs
          /\ calculated_fingerprint(root_cert) = CERT_FINGERPRINT

\* A chain that verifies up to another root than the fetched one has been
\* refused at the comparison.
C16_Witness ==
    /\ vpc = "done"
    /\ root_cert = PinnedRootCert
    /\ certs # <<>>
    /\ certs.root_cert = RogueRootCert
    /\ certs.intermediate_cert = StrayIntermediateCert
    /\ certs.leaf_cert = WideLeafCert
    /\ vresult.cause_line = 441

\* C17: an RS256 token signed by the leaf key of a three-certificate chain
\* rooted at the pinned fingerprint, all three certificates inside their
\* validity windows and the chain of trust valid, the token not expired, is
\* answered with claims equal to its payload, whether or not the payload
\* carries an aud claim.
C17_ValidPkiTokenReturnsPayload ==
    (/\ vpc = "done"
     /\ scheme = "PKI"
     /\ root_cert = PinnedRootCert
     /\ Len(token.header.x5c) = 3
     /\ \A i \in 1..3 : token.header.x5c[i].der_ok
     /\ token.header.x5c[1].hash = "sha256"
     /\ token.header.x5c[1].keytype = "RSA"
     /\ token.header.x5c[3] = PinnedRootCert
     /\ \A i \in 1..3 : ~Outside(token.header.x5c[i])
     /\ token.header.x5c[1].signed_by = token.header.x5c[2].key
     /\ token.header.x5c[2].signed_by = token.header.x5c[3].key
     /\ token.signed_by = token.header.x5c[1].key
     /\ token.payload.exp = 0 \/ token.payload.exp > now)
    => /\ vresult.kind = "claims"
       /\ vresult.value = token.payload

(***************************************************************************)
(* Properties of the OIDC path.                                            *)
(***************************************************************************)
\* C18: in OIDC validation, when no entry of the fetched key set has the kid
\* of the token header (the key set may be empty), the call fails with the
\* key-not-found validation error and no key is built and no signature
\* verified.
C18_NoMatchingKidIsKeyNotFound ==
    (/\ vpc = "done"
     /\ scheme = "OIDC"
     /\ jwks.status_code = 200
     /\ jwks.has_field
     /\ token.header.kid # "absent"
     /\ \A i \in 1..Len(jwks.keys) : jwks.keys[i].kid # token.header.kid)
    => /\ vresult.kind = "VtpmValidationError"
       /\ vresult.line = 191
       /\ vresult.detail = "kid"
       /\ EventNames \cap {"jwk_to_rsa_key", "jwt_decode"} = {}
       /\ rsa_key = "none"

\* Two entries were examined, neither with the header's kid.
C18_Witness ==
    /\ vpc = "done"
    /\ token.header.kid = "k3"
    /\ Len(jwks.keys) = 2
    /\ vresult.line = 191
    /\ events[Len(events)] = Ev("examine_key", 2)

Names(evs) == [i \in 1..Len(evs) |-> evs[i].ev]

PkiSteps ==
    <<"get_unverified_header", "check_alg", "dispatch", "fetch_root",
      "check_fingerprint", "extract", "decode_cert", "decode_cert",
      "decode_cert", "validate_leaf", "compare_roots", "check_validity",
      "verify_chain", "jwt_decode">>

OidcHead ==
    <<"get_unverified_header", "check_alg", "dispatch", "fetch_oidc_config",
      "fetch_jwks">>

\* The history of a complete OIDC validation: the metadata and the key set
\* fetched, entries examined up to the matching one, that one converted, the
\* token decoded.
IsOidcSteps(ns) ==
    /\ Len(ns) >= 8
    /\ SubSeq(ns, 1, 5) = OidcHead
    /\ \A i \in 6..(Len(ns) - 2) : ns[i] = "examine_key"
    /\ ns[Len(ns) - 1] = "jwk_to_rsa_key"
    /\ ns[Len(ns)] = "jwt_decode"

\* C20: validate_token returns claims only after every step of the selected
\* path has succeeded; a failing step ends the call with an error and no
\* claims.
C20_ClaimsOnlyAfterEveryStep ==
    /\ vresult.kind # "none" => vpc = "done"
    /\ vpc = "done" => vresult.kind \notin {"none", "ok"}
    /\ vresult.kind # "claims" => vresult.value = <<>>
    /\ vresult.kind = "claims" =>
        /\ scheme \in {"PKI", "OIDC"}
        /\ vresult.value = token.payload
        /\ token.header.alg = "RS256"
        /\ \A i \in 1..Len(events) :
              events[i].ev \in {"fetch_root", "fetch_oidc_config", "fetch_jwks"}
                => events[i].arg = 200
    /\ (vresult.kind = "claims" /\ scheme = "PKI") =>
        /\ Names(events) = PkiSteps
        /\ root_cert.der = "root"
        /\ Len(token.header.x5c) = 3
        /\ \A i \in 1..3 : token.header.x5c[i].der_ok
        /\ certs.leaf_cert = token.header.x5c[1]
        /\ certs.intermediate_cert = token.header.x5c[2]
        /\ certs.root_cert = token.header.x5c[3]
        /\ certs.leaf_cert.hash = "sha256"
        /\ certs.leaf_cert.keytype = "RSA"
        /\ certs.root_cert.tbs = root_cert.tbs
        /\ ~Outside(certs.leaf_cert)
        /\ ~Outside(certs.intermediate_cert)
        /\ ~Outside(certs.root_cert)
        /\ certs.leaf_cert.signed_by = certs.intermediate_cert.key
        /\ certs.intermediate_cert.signed_by = certs.root_cert.key
        /\ token.signed_by = certs.leaf_cert.key
    /\ (vresult.kind = "claims" /\ scheme = "OIDC") =>
        /\ IsOidcSteps(Names(events))
        /\ \E i \in 1..Len(jwks.keys) :
              /\ jwks.keys[i].kid = token.header.kid
              /\ jwks.keys[i].key = rsa_key
        /\ token.signed_by = rsa_key

\* The PKI path has returned the claims of a token after all of its steps.
C20_Witness ==
    /\ vpc = "done"
    /\ scheme = "PKI"
    /\ vresult.kind = "claims"
    /\ Names(events) = PkiSteps
    /\ certs.leaf_cert = PointLeafCert
    /\ now = 2

(***************************************************************************)
(* Requests made by one call.                                              *)
(***************************************************************************)
FetchNames == {"fetch_oidc_config", "fetch_jwks", "fetch_root"}

TimesRequested(name) ==
    Cardinality({i \in 1..Len(events) : events[i].ev = name})

\* C21: within one validate_token call each well-known endpoint is requested
\* at most once and a failed request ends the call with an error instead of
\* being repeated; one get_token call sends at most one request over its
\* socket.
C21_NoRequestIsRepeated ==
    /\ \A name \in FetchNames : TimesRequested(name) <= 1
    /\ \A i \in 1..Len(events) :
          (events[i].ev \in FetchNames /\ events[i].arg # 200) =>
              /\ i = Len(events)
              /\ vpc = "done"
              /\ vresult.kind \notin {"none", "ok", "claims"}
    /\ Len(posts) <= 1
    /\ pc = "idle" => posts = <<>>

\* A call has ended on the failed fetch of the key set, which it requested
\* once after the metadata.
C21_Witness ==
    /\ vpc = "done"
    /\ Len(events) = 5
    /\ events[4] = Ev("fetch_oidc_config", 200)
    /\ events[5] = Ev("fetch_jwks", 503)
    /\ vresult.kind = "HTTPError"

(***************************************************************************)
(* Interleaved validate_token calls.                                       *)
(***************************************************************************)
NoAnswer == Response(0, FALSE, FALSE, <<>>, FALSE, NoCert)

\* validate_token(tok) run alone at clock t, the endpoints answering rc
\* (metadata) and rj (key set).
AloneOidc(tok, t, rc, rj) ==
    IF rc.status_code = 0 THEN Raise("ConnectionError", 295, "")
    ELSE IF oidc_config(rc).kind # "ok" THEN oidc_config(rc)
    ELSE IF rj.status_code = 0 THEN Raise("ConnectionError", 319, "")
    ELSE IF fetch_jwks(rj).kind # "ok" THEN fetch_jwks(rj)
    ELSE IF ~rj.has_field THEN Raise("KeyError", 183, "keys")
    ELSE LET scan == ScanKeys(rj.keys, tok.header, 1)
         IN  IF scan.out.kind # "ok" THEN scan.out
             ELSE IF scan.key = "none" THEN Raise("VtpmValidationError", 191, "kid")
             ELSE decode_oidc(tok, scan.key, t)

\* The same for the PKI path, the root endpoint answering rr; cf is the
\* error the OpenSSL binding raises on a chain that does not verify.
AlonePki(tok, t, rr, cf) ==
    IF rr.status_code = 0 THEN Raise("ConnectionError", 295, "")
    ELSE IF fetch_root(rr).kind # "ok" THEN fetch_root(rr)
    ELSE IF calculated_fingerprint(rr.cert) # CERT_FINGERPRINT
        THEN Raise("VtpmValidationError", 247, "")
    ELSE LET x == extract_and_validate_certificates(tok.header)
             cs == [leaf_cert |-> tok.header.x5c[1],
                    intermediate_cert |-> tok.header.x5c[2],
                    root_cert |-> tok.header.x5c[3]]
         IN  IF x.out.kind # "ok" THEN PkiWrap(x.out)
             ELSE IF validate_leaf_certificate(cs.leaf_cert).kind # "ok"
                 THEN PkiWrap(validate_leaf_certificate(cs.leaf_cert))
             ELSE IF compare_root_certificates(cs.root_cert, rr.cert).kind # "ok"
                 THEN PkiWrap(compare_root_certificates(cs.root_cert, rr.cert))
             ELSE IF check_certificate_validity(cs, t).kind # "ok"
                 THEN PkiWrap(check_certificate_validity(cs, t))
             ELSE IF ~ChainVerifies(cs) THEN PkiWrap(cf)
             ELSE decode_pki(tok, cs, t)

Alone(tok, t, rc, rj, rr, cf) ==
    IF ~tok.wellformed THEN Raise("DecodeError", 140, "")
    ELSE IF AlgorithmRejected(tok.header)
        THEN Raise("VtpmValidationError", 146, tok.header.alg)
    ELSE IF SelectsPki(tok, tok.header) THEN AlonePki(tok, t, rr, cf)
    ELSE AloneOidc(tok, t, rc, rj)

\* The status a call received from an endpoint, -1 if it made no request.
StatusSeen(F, name) ==
    IF \E i \in 1..Len(F.events) : F.events[i].ev = name
    THEN F.events[CHOOSE i \in 1..Len(F.events) : F.events[i].ev = name].arg
    ELSE -1

\* The answers an endpoint can have given to a call, from what the call
\* holds of them.
ConfigAnswers(F) ==
    IF StatusSeen(F, "fetch_oidc_config") \in {-1, 0} THEN {NoAnswer}
    ELSE {r \in ConfigResponses :
            /\ r.status_code = StatusSeen(F, "fetch_oidc_config")
            /\ (oidc_config(r).kind = "ok") <=> (StatusSeen(F, "fetch_jwks") # -1)}

JwksAnswers(F) ==
    IF StatusSeen(F, "fetch_jwks") \in {-1, 0} THEN {NoAnswer}
    ELSE IF F.jwks # NoAnswer THEN {F.jwks}
    ELSE {r \in JwksResponses :
            /\ r.status_code = StatusSeen(F, "fetch_jwks")
            /\ fetch_jwks(r).kind # "ok"}

RootAnswers(F) ==
    IF StatusSeen(F, "fetch_root") \in {-1, 0} THEN {NoAnswer}
    ELSE IF F.root_cert # NoCert
        THEN {r \in RootResponses : fetch_root(r).kind = "ok" /\ r.cert = F.root_cert}
    ELSE {r \in RootResponses :
            /\ r.status_code = StatusSeen(F, "fetch_root")
            /\ fetch_root(r).kind # "ok"}

SameAsAlone(F) ==
    F.vpc = "done" =>
        \E rc \in ConfigAnswers(F), rj \in JwksAnswers(F), rr \in RootAnswers(F),
           cf \in ChainFailures :
            F.vresult = Alone(F.token, F.now, rc, rj, rr, cf)

\* C22: validate_token calls on one validator share no mutable state: the
\* validator keeps the values it was constructed with, and a call interleaved
\* with another one ends with the outcome it has when run alone on the same
\* token, clock and endpoint answers.
C22_InterleavedCallsAreIndependent ==
    /\ validator = [expected_issuer |-> "https://confidentialcomputing.googleapis.com",
                    oidc_endpoint |-> "/.well-known/openid-configuration",
                    pki_endpoint |-> "/.well-known/confidential_space_root.crt"]
    /\ SameAsAlone(RunningFrame)
    /\ SameAsAlone(parked)
    /\ parked.vpc # "idle" => parked.token \in SecondCallTokens \cup FirstCallTokens
    /\ parked.vpc = "done" => parked.vresult.kind \notin {"none", "ok"}

\* Two OIDC calls with the same kid have been interleaved after each had
\* fetched its own key set; each has validated its token with its own key.
C22_Witness ==
    /\ vpc = "done"
    /\ parked.vpc = "done"
    /\ {token, parked.token} = {OidcTokenK1, OidcTokenK2}
    /\ vresult.kind = "claims"
    /\ parked.vresult.kind = "claims"
    /\ rsa_key # parked.rsa_key
    /\ Len(events) > 5

(***************************************************************************)
(* The message of the nonce error.                                         *)
(***************************************************************************)
FirstOutOfRange(ns) ==
    CHOOSE i \in 1..Len(ns) : ~InRange(ns[i]) /\ \A j \in 1..(i - 1) : InRange(ns[j])

\* C23: when the nonce check fails, the error names the first out-of-range
\* nonce of the list and both bounds, 10 and 74.
C23_NonceErrorNamesBothBounds ==
    (pc = "done" /\ result.kind = "VtpmAttestationError" /\ result.line = 80) =>
        /\ result.value.nonce = nonces[FirstOutOfRange(nonces)]
        /\ result.value.bounds = <<10, 74>>

(***************************************************************************)
(* Prompt.format and the required inputs.                                  *)
(***************************************************************************)
MissingInputs(p, kw) ==
    {p.required_inputs[i] : i \in 1..Len(p.required_inputs)} \ DOMAIN kw

\* C24: Prompt.format raises ValueError listing the missing names when a
\* prompt with required inputs is formatted without one of them, and returns
\* the template with every supplied variable substituted when all required
\* inputs are given.
C24_MissingRequiredInputRaises ==
    formatted.kind # "none" =>
        IF prompt.has_required /\ MissingInputs(prompt, kwargs) # {}
        THEN /\ formatted.kind = "ValueError"
             /\ formatted.value = MissingInputs(prompt, kwargs)
        ELSE /\ formatted.kind = "str"
             /\ \A i \in 1..Len(prompt.template) :
                   (prompt.template[i].var /\ prompt.template[i].text \in DOMAIN kwargs)
                       => formatted.value[i] = Lit(kwargs[prompt.template[i].text])

(***************************************************************************)
(* FlareProvider: the transaction queue.                                   *)
(***************************************************************************)
\* C25: send_tx_in_queue sends the most recently added transaction and on
\* success removes exactly that element, the earlier elements staying in
\* their order; on an empty queue it raises ValueError and sends nothing.
C25_SendTakesLastAdded ==
    [][flare_result'.op = "send_tx_in_queue" =>
        IF tx_queue = <<>>
        THEN /\ flare_result'.kind = "ValueError"
             /\ flare_result'.line = 97
             /\ flare_result'.broadcast = <<>>
             /\ tx_queue' = <<>>
        ELSE /\ \A i \in 1..Len(flare_result'.broadcast) :
                   flare_result'.broadcast[i] = tx_queue[Len(tx_queue)].tx
             /\ Len(flare_result'.broadcast) <= 1
             /\ flare_result'.kind = "ok" =>
                   /\ flare_result'.broadcast = <<tx_queue[Len(tx_queue)].tx>>
                   /\ flare_result'.value = tx_queue[Len(tx_queue)].tx
                   /\ tx_queue' = SubSeq(tx_queue, 1, Len(tx_queue) - 1)]_vars

\* A send has succeeded on a queue of two different transactions: the one
\* added last went out, the one added first is still queued.
C25_Witness ==
    /\ flare_result.op = "send_tx_in_queue"
    /\ flare_result.kind = "ok"
    /\ Len(tx_queue) = 1
    /\ tx_queue[1].tx # flare_result.value
    /\ flare_result.broadcast = <<flare_result.value>>

(***************************************************************************)
(* The order of the PKI checks.                                            *)
(***************************************************************************)
\* Position of a step in _decode_and_validate_pki.
PkiRank(name) ==
    CHOOSE i \in 1..Len(PkiSteps) :
        PkiSteps[i] = name /\ \A j \in 1..(i - 1) : PkiSteps[j] # name

LastEvent == events[Len(events)]

BadLeaf(cert) == cert.hash # CERT_HASH_ALGO \/ cert.keytype # "RSA"

\* C26: the PKI path checks, in this order, the fetched root's fingerprint,
\* the chain (its count, then the decoding of its entries), the leaf's
\* algorithm and key type, the embedded root against the fetched one, the
\* validity windows, the chain of trust and the token's signature; the error
\* reported is that of the earliest check that fails, and no later check
\* runs.
C26_EarliestFailingPkiCheckReported ==
    /\ scheme = "PKI" =>
        /\ \A i \in 1..Len(events) : \E k \in 1..Len(PkiSteps) : PkiSteps[k] = events[i].ev
        /\ \A i, j \in 1..Len(events) :
              i < j =>
                  \/ PkiRank(events[i].ev) < PkiRank(events[j].ev)
                  \/ /\ events[i].ev = "decode_cert"
                     /\ events[j].ev = "decode_cert"
                     /\ events[i].arg < events[j].arg
    /\ (scheme = "PKI" /\ vpc = "done" /\ root_cert # NoCert) =>
        LET x == token.header.x5c
        IN  IF root_cert.der # "root"
            THEN vresult.line = 247 /\ LastEvent.ev = "check_fingerprint"
            ELSE IF Len(x) # CERT_COUNT
            THEN vresult.cause_line = 376 /\ LastEvent.ev = "extract"
            ELSE IF \E i \in 1..CERT_COUNT : ~x[i].der_ok
            THEN /\ vresult.cause_line = 412
                 /\ LastEvent = Ev("decode_cert", FirstUndecodable(x))
            ELSE IF BadLeaf(x[1])
            THEN /\ vresult.cause_line \in {418, 423, 427}
                 /\ LastEvent.ev = "validate_leaf"
            ELSE IF x[3].tbs # root_cert.tbs
            THEN vresult.cause_line = 441 /\ LastEvent.ev = "compare_roots"
            ELSE IF \E i \in 1..CERT_COUNT : Outside(x[i])
            THEN vresult.cause_line = 502 /\ LastEvent.ev = "check_validity"
            ELSE IF ~ChainVerifies(certs)
            THEN /\ vresult.cause_line \in {470, 474}
                 /\ LastEvent.ev = "verify_chain"
            ELSE /\ LastEvent.ev = "jwt_decode"
                 /\ vresult.kind = "claims" \/ vresult.cause_line = 261

\* A token whose chain has an SHA-1 leaf, a root other than the fetched one
\* and certificates outside their validity window: the leaf's error is the
\* one reported and nothing after the leaf check has run.
C26_Witness ==
    /\ scheme = "PKI"
    /\ vpc = "done"
    /\ root_cert = PinnedRootCert
    /\ Len(token.header.x5c) = CERT_COUNT
    /\ \A i \in 1..CERT_COUNT : token.header.x5c[i].der_ok
    /\ BadLeaf(token.header.x5c[1])
    /\ token.header.x5c[3].tbs # root_cert.tbs
    /\ \E i \in 1..CERT_COUNT : Outside(token.header.x5c[i])
    /\ LastEvent.ev = "validate_leaf"
    /\ vresult.cause \in {"SignatureValidationError"}

\* All checks up to the comparison of the roots pass, the embedded root is
\* not the fetched one and a certificate is outside its window: the
\* comparison's error is reported.
C26_WitnessRootBeforeWindow ==
    /\ scheme = "PKI"
    /\ vpc = "done"
    /\ root_cert = PinnedRootCert
    /\ LastEvent.ev = "compare_roots"
    /\ vresult.cause_line = 441
    /\ \E i \in 1..CERT_COUNT : Outside(token.header.x5c[i])

(***************************************************************************)
(* The key an OIDC token is verified with.                                 *)
(***************************************************************************)
\* First entry of the fetched key set with the header's kid.
FirstMatch ==
    CHOOSE m \in 1..Len(jwks.keys) :
        /\ jwks.keys[m].kid = token.header.kid
        /\ \A j \in 1..(m - 1) : jwks.keys[j].kid # token.header.kid

\* C27: the OIDC key is built from the first entry of the key set, in its
\* order, whose kid equals the header's; entries before it are skipped,
\* entries after it are neither examined nor converted, and the issuer
\* metadata is fetched before the key set.
C27_FirstMatchingEntryIsTheKey ==
    /\ \A i \in 1..Len(events) :
          events[i].ev = "fetch_jwks" =>
              i > 1 /\ events[i - 1] = Ev("fetch_oidc_config", 200)
    /\ \A i \in 1..Len(events) :
          events[i].ev = "examine_key" =>
              /\ events[i].arg = i - 5
              /\ events[i].arg <= Len(jwks.keys)
              /\ \A j \in 1..(events[i].arg - 1) :
                    jwks.keys[j].kid # token.header.kid
    /\ \A i \in 1..Len(events) :
          events[i].ev = "jwk_to_rsa_key" =>
              /\ events[i].arg = FirstMatch
              /\ i = 5 + FirstMatch + 1
              /\ \A j \in 1..Len(events) :
                    events[j].ev = "examine_key" => events[j].arg <= FirstMatch
              /\ rsa_key = IF jwks.keys[FirstMatch].n_e_ok
                           THEN jwks.keys[FirstMatch].key ELSE "none"
    /\ (scheme = "OIDC" /\ LastEvent.ev = "jwt_decode" /\ Len(events) > 0) =>
          /\ rsa_key = jwks.keys[FirstMatch].key
          /\ vresult = decode_oidc(token, jwks.keys[FirstMatch].key, now)

\* The key set holds two entries with the header's kid and different keys:
\* the token, signed with the first one's key, has been verified with it and
\* the second entry was never looked at.
C27_Witness ==
    /\ scheme = "OIDC"
    /\ vpc = "done"
    /\ jwks.keys = <<Jwk("k1", TRUE, "K1"), Jwk("k1", TRUE, "K2")>>
    /\ token.header.kid = "k1"
    /\ token.signed_by = "K1"
    /\ vresult.kind = "claims"
    /\ Names(events) = OidcHead \o <<"examine_key", "jwk_to_rsa_key", "jwt_decode">>

\* An entry with another kid stands before the matching one: it was examined
\* and skipped, the second one gave the key.
C27_WitnessSkipped ==
    /\ scheme = "OIDC"
    /\ vpc = "done"
    /\ jwks.keys = <<Jwk("k2", TRUE, "K2"), Jwk("k1", TRUE, "K1")>>
    /\ token.header.kid = "k1"
    /\ rsa_key = "K1"
    /\ Names(events) =
          OidcHead \o <<"examine_key", "examine_key", "jwk_to_rsa_key", "jwt_decode">>

(***************************************************************************)
(* FlareProvider: failed sends and reset.                                  *)
(***************************************************************************)
\* C28: when send_tx_in_queue fails while signing or sending, the "Account
\* not initialized" ValueError included, the queue is left exactly as it was:
\* the same transaction is still its last element.
C28_FailedSendLeavesQueue ==
    [][(flare_result'.op = "send_tx_in_queue" /\ flare_result'.kind # "ok") =>
        /\ tx_queue' = tx_queue
        /\ address' = address
        /\ private_key' = private_key]_vars

\* A send has failed for want of an account while a transaction was queued;
\* the transaction is still there.
C28_Witness ==
    /\ flare_result.op = "send_tx_in_queue"
    /\ flare_result.kind = "ValueError"
    /\ flare_result.line = 129
    /\ flare_result.broadcast = <<>>
    /\ Len(tx_queue) = 2

\* The node refused the transaction of an initialized account; the queue is
\* as it was.
C28_WitnessNodeRefused ==
    /\ flare_result.op = "send_tx_in_queue"
    /\ flare_result.kind = "Web3RPCError"
    /\ address # "None"
    /\ tx_queue # <<>>

RaisesValueError(op) ==
    flare_result.op = op => flare_result.kind = "ValueError"

\* C29 as stated: after reset all of send_tx_in_queue, check_balance and
\* create_send_flr_tx raise ValueError until both generate_account and
\* add_tx_to_queue have been called again.
C29_AllRaiseUntilBothCalled ==
    ~({"generate_account", "add_tx_to_queue"} \subseteq since_reset) =>
        /\ RaisesValueError("send_tx_in_queue")
        /\ RaisesValueError("check_balance")
        /\ RaisesValueError("create_send_flr_tx")

\* C29: after reset the address and the private key are unset and the queue
\* is empty; send_tx_in_queue raises ValueError until generate_account and
\* add_tx_to_queue have both been called again, check_balance and
\* create_send_flr_tx until generate_account has; address and private key
\* are always both set or both unset.
C29_ResetClearsAccountAndQueue ==
    /\ (address = "None") <=> (private_key = "None")
    /\ address # "None" => private_key = KeyOf(address)
    /\ flare_result.op = "reset" =>
        /\ address = "None"
        /\ private_key = "None"
        /\ tx_queue = <<>>
    /\ "generate_account" \notin since_reset =>
        /\ address = "None"
        /\ private_key = "None"
        /\ RaisesValueError("check_balance")
        /\ RaisesValueError("create_send_flr_tx")
    /\ "add_tx_to_queue" \notin since_reset => tx_queue = <<>>
    /\ ~({"generate_account", "add_tx_to_queue"} \subseteq since_reset) =>
        /\ RaisesValueError("send_tx_in_queue")
        /\ flare_result.op = "send_tx_in_queue" => flare_result.broadcast = <<>>

\* After a reset and a new add_tx_to_queue, with no account generated since,
\* send_tx_in_queue has raised for want of an account.
C29_Witness ==
    /\ resets >= 1
    /\ since_reset = {"add_tx_to_queue", "send_tx_in_queue"}
    /\ flare_result.op = "send_tx_in_queue"
    /\ flare_result.kind = "ValueError"
    /\ address = "None"
    /\ private_key = "None"
    /\ tx_queue # <<>>

(***************************************************************************)
(* verify_transactions and the alerts of the monitoring loop.              *)
(***************************************************************************)
\* The results that are back in main.
Returned == mpc \in {"alerts", "sleep"} /\ main_result # "Exception" /\ high_risk_reports # <<>>

\* C30: verify_transactions returns one result per report, in the order of
\* the reports and with each report's transaction hash, its status one of
\* verified, failed and error; a failure while submitting a report is
\* recorded as error and the remaining reports are still processed; main
\* calls send_alert only for results whose status is verified.
C30_OneResultPerReport ==
    /\ mpc = "verify" =>
        /\ Len(verification_results) = next_report - 1
        /\ next_report <= Len(high_risk_reports) + 1
    /\ Returned => Len(verification_results) = Len(high_risk_reports)
    /\ \A i \in 1..Len(verification_results) :
        /\ i <= Len(high_risk_reports)
        /\ verification_results[i].transaction_hash =
              high_risk_reports[i].transaction_hash
        /\ verification_results[i].status \in {"verified", "failed", "error"}
        /\ ~high_risk_reports[i].has_risk_hash =>
              verification_results[i].status = "error"
        /\ verification_results[i].status = "error" <=>
              verification_results[i].line = 60
    /\ \A k \in 1..Len(alert_calls) :
        \E i \in 1..Len(verification_results) :
            /\ verification_results[i].status = "verified"
            /\ alert_calls[k] = AlertData(verification_results[i])
    /\ alert_calls # <<>> => mpc \in {"alerts", "sleep"}

\* The submission of the first of two reports failed, the second was
\* verified: both results are back, and the alert went to the second.
C30_Witness ==
    /\ mpc = "sleep"
    /\ Len(high_risk_reports) = 2
    /\ Len(verification_results) = 2
    /\ verification_results[1].status = "error"
    /\ verification_results[2].status = "verified"
    /\ Len(alert_calls) = 1
    /\ alert_calls[1].event_data.verification_tx = 2

====
